---- MODULE Spec2Model ----
(***************************************************************************)
(* Model of the on-demand video decoder's concurrency core:                *)
(*   - ThreadRunner (inc/ThreadPool.hpp): one worker thread, a FIFO task   *)
(*     queue, join / force_join, move construction and move assignment;    *)
(*   - the async decode pipeline of PyNvSampleReader                       *)
(*     (src/PyNvSampleReader.cpp): DecodeN12ToRGBAsync and                 *)
(*     DecodeN12ToRGBAsyncGetBuffer around a one-element result queue.     *)
(* One caller thread issues the API calls; each worker thread is a         *)
(* separate process of the model.  A thread created by the constructor of  *)
(* runner object o runs o's threadLoop for its whole life (the lambda of   *)
(* line 28 captures `this`), so threads are named by that object.          *)
(***************************************************************************)
EXTENDS Integers, Sequences, FiniteSets, TLC

\* ------------------------------------------------------------------ bounds
MaxTasks == 3

\* ThreadRunner objects of the model and the kinds of thing a task can throw.
Objs == {"r1", "r2"}
Throws == {"none", "std", "unknown"}
NoTask == [id |-> 0, throws |-> "none"]

VARIABLES
    \* ThreadRunner fields, one value per runner object
    tasks, stopFlag, busy, hasException, exceptionPtr, worker,
    \* lifetime of each runner object: "unborn", "alive", "destroyed"
    alive,
    \* worker threads, named by the object whose threadLoop they run
    tpc, ttask,
    \* the caller thread: its position, the object it is calling, last outcome
    \* and the argument of the call in progress
    cpc, cobj, cres, carg,
    \* history: next task id, ids started / finished / discarded by force_join,
    \* task failures since the failure state was last consumed, and by what
    \* join() calls that raised, failures a force_join() dropped, and how
    \* many task failures the last raising join() stood for, and the tasks
    \* that were queued when a destructor was entered
    nextId, started, done, discarded, failedSince, lastClear, raises, dropped, consumed,
    queuedAtDtor,
    \* PyNvSampleReader: has_pending_task, decode_result_queue, and the
    \* DecodeResult the async task is building
    pending, rq, wres,
    \* history of the pipeline: submits so far, requests whose decode failed,
    \* requests whose result was pushed, the result the last retrieve popped,
    \* requests a later submit waited for and replaced
    nsub, failedRids, published, cgot, superseded,
    \* GOP index: the packets Demux returns, the call it fails at (0: none),
    \* the codec, the variable-frame-rate flag, the sorted pairs, the table
    \* and both maps, and the position of the caller
    demuxed, demuxFailAt, videoCodec, isVFR, pts_keyFrame_pair, gop_start_idx,
    frame2pts, pts2frame, gpc,
    \* parse_gop_length: its arguments and what it returned
    sorted_frame_ids, first_frame_ids, gop_length, lres,
    \* LFUCache: the object (capacity, minFreq, keyVal, freqLists, pos) and
    \* the last call made on it
    lfu, lop,
    \* key-frame classifier: the last call and what it gave
    kcall, kres,
    \* process_frames_in_parallel: the caller's position, what the per-file
    \* work of each file does, the threads, res, eptr and what the call gave
    ppc, pwork, threads, pres, eptr, pret,
    \* run / run_rgb_out as one call: the reader cache of every file slot,
    \* the last call, the slots it looked up and what it gave
    VideoReaderMap, dcall, dlookups, dres,
    \* PyNvGopDemuxer: the file behind the demuxer (its packets in frame
    \* order, codec, frame-rate mode) and the maps set on it
    sstream, scodec, sIsVFR, sframe2pts, spts2frame,
    \* Seek / SeekGopFirstFrameNoMap: the function running, its position,
    \* the frame asked for, the locals, the output argument, what the last
    \* container seek returned and whether the call has issued one
    sfn, spc, starget, frame_id_to_seek, current_frame_to_seek, found_key_frame,
    frame_id_out, timestamp_keyframe, timestamp_out, sout, sseeked

rvars == <<tasks, stopFlag, busy, hasException, exceptionPtr, worker, alive>>
tvars == <<tpc, ttask>>
cvars == <<cpc, cobj, cres, carg>>
hvars == <<nextId, started, done, discarded, failedSince, lastClear, raises, dropped, consumed, queuedAtDtor>>
avars == <<pending, rq, wres, nsub, failedRids, published, cgot, superseded>>
gvars == <<demuxed, demuxFailAt, videoCodec, isVFR, pts_keyFrame_pair, gop_start_idx,
           frame2pts, pts2frame, gpc, sorted_frame_ids, first_frame_ids, gop_length, lres>>
\* the runner and the pipeline on one side, the other components on the other
corevars == <<rvars, tvars, cvars, hvars, avars>>
lvars == <<lfu, lop>>
kvars == <<kcall, kres>>
pvars == <<ppc, pwork, threads, pres, eptr, pret>>
dvars == <<VideoReaderMap, dcall, dlookups, dres>>
sfile == <<sstream, scodec, sIsVFR, sframe2pts, spts2frame>>
scall == <<sfn, spc, starget, frame_id_to_seek, current_frame_to_seek, found_key_frame,
           frame_id_out, timestamp_keyframe, timestamp_out, sout, sseeked>>
svars == <<sfile, scall>>
extvars == <<gvars, lvars, kvars, pvars, dvars, svars>>
vars == <<corevars, extvars>>

Ids(q) == {q[i].id : i \in 1..Len(q)}

\* ------------------------------------------------------- ThreadRunner model

\* ThreadRunner(): flags cleared, worker thread started on this->threadLoop().
InitRunners(born) ==
    /\ tasks = [o \in Objs |-> <<>>]
    /\ stopFlag = [o \in Objs |-> FALSE]
    /\ busy = [o \in Objs |-> FALSE]
    /\ hasException = [o \in Objs |-> FALSE]
    /\ exceptionPtr = [o \in Objs |-> "null"]
    /\ worker = [o \in Objs |-> IF o \in born THEN o ELSE "none"]
    /\ alive = [o \in Objs |-> IF o \in born THEN "alive" ELSE "unborn"]
    /\ tpc = [o \in Objs |-> IF o \in born THEN "wait" ELSE "none"]
    /\ ttask = [o \in Objs |-> NoTask]

InitCaller ==
    /\ cpc = "idle"
    /\ cobj = "r1"
    /\ cres = "none"
    /\ carg = "none"

InitHistory ==
    /\ nextId = 1
    /\ started = {}
    /\ done = {}
    /\ discarded = {}
    /\ failedSince = 0
    /\ lastClear = "none"
    /\ raises = 0
    /\ dropped = 0
    /\ consumed = 0
    /\ queuedAtDtor = {}

\* A default-constructed DecodeResult (rid: which submit it answers).
NoResult ==
    [file_path_list |-> <<>>, frame_id_list |-> <<>>, as_bgr |-> FALSE,
     is_ready |-> FALSE, decoded_frames |-> <<>>, exception |-> "null", rid |-> 0]

\* PyNvSampleReader(): decode_result_queue(1) empty, has_pending_task(false).
InitPipeline ==
    /\ pending = FALSE
    /\ rq = <<>>
    /\ wres = NoResult
    /\ nsub = 0
    /\ failedRids = {}
    /\ published = {}
    /\ cgot = NoResult
    /\ superseded = {}

\* A std::map with no entry.
EmptyMap == [x \in {} |-> 0]

\* The GOP index is not in use.
IdleGop ==
    /\ demuxed = <<>>
    /\ demuxFailAt = 0
    /\ videoCodec = "H264"
    /\ isVFR = FALSE
    /\ pts_keyFrame_pair = <<>>
    /\ gop_start_idx = <<>>
    /\ frame2pts = EmptyMap
    /\ pts2frame = EmptyMap
    /\ gpc = "idle"
    /\ sorted_frame_ids = <<>>
    /\ first_frame_ids = <<>>
    /\ gop_length = <<>>
    /\ lres = "none"

\* LFUCache(capacity): minFreq = 0, the three maps empty.  A freqLists entry
\* exists in the model exactly while its list is not empty.
NewCache(capacity) ==
    [capacity |-> capacity, minFreq |-> 0, keyVal |-> EmptyMap,
     freqLists |-> EmptyMap, pos |-> {}]

NoCall == [op |-> "none", key |-> 0, value |-> 0, ret |-> "none", cached |-> FALSE, full |-> FALSE]

\* The cache is not in use.
IdleCache ==
    /\ lfu = NewCache(0)
    /\ lop = NoCall

\* The components a specification does not exercise stay as constructed.
\* No packet was classified.
IdleClassifier ==
    /\ kcall = [fn |-> "none", codec_id |-> "H264", pVideo |-> [null |-> TRUE, bytes |-> <<>>], demux_flags |-> 0]
    /\ kres = "none"

\* No parallel call is under way.
IdleParallel ==
    /\ ppc = "idle"
    /\ pwork = <<>>
    /\ threads = <<>>
    /\ pres = <<>>
    /\ eptr = 0
    /\ pret = <<>>

\* The components a specification does not exercise stay as constructed.
\* No sample reader was constructed.
IdleDecode ==
    /\ VideoReaderMap = <<>>
    /\ dcall = [fn |-> "none", filepaths |-> 0, frame_ids |-> 0]
    /\ dlookups = <<>>
    /\ dres = "none"

\* What a container seek that failed leaves behind.
NoPacket == [ret |-> FALSE, null |-> TRUE, frame |-> 0]

\* No call of the demuxer's seek functions is under way; frame_id_out is
\* the caller's variable, -1 before the first call.
IdleSeekCall ==
    /\ sfn = "none"
    /\ spc = "idle"
    /\ starget = 0
    /\ frame_id_to_seek = 0
    /\ current_frame_to_seek = 0
    /\ found_key_frame = FALSE
    /\ frame_id_out = -1
    /\ timestamp_keyframe = 0
    /\ timestamp_out = 0
    /\ sout = NoPacket
    /\ sseeked = FALSE

\* No demuxer was opened.
IdleSeek ==
    /\ sstream = <<>>
    /\ scodec = "H264"
    /\ sIsVFR = FALSE
    /\ sframe2pts = EmptyMap
    /\ spts2frame = EmptyMap
    /\ IdleSeekCall

\* The components a specification does not exercise stay as constructed.
IdleExt == IdleGop /\ IdleCache /\ IdleClassifier /\ IdleParallel /\ IdleDecode /\ IdleSeek

\* No runner and no pipeline: the specifications of the other components.
IdleCore ==
    /\ InitRunners({})
    /\ InitCaller
    /\ InitHistory
    /\ InitPipeline

\* Variant: the new task is put at the front of the queue.
EnqueueFront(q, t) == <<t>> \o q
\* tasks.emplace(...): the new task goes to the back of the queue.
Enqueue(q, t) == Append(q, t)

\* start(f): enqueue under the lock, notify the worker, return.
Start(o, t) ==
    /\ cpc = "idle"
    /\ alive[o] = "alive"
    /\ nextId <= MaxTasks
    /\ t.id = nextId
    /\ tasks' = [tasks EXCEPT ![o] = Enqueue(@, t)]
    /\ nextId' = nextId + 1
    /\ UNCHANGED <<stopFlag, busy, hasException, exceptionPtr, worker, alive>>
    /\ UNCHANGED <<tvars, cvars, started, done, discarded, failedSince, lastClear, raises, dropped, consumed, queuedAtDtor>>
    /\ UNCHANGED <<avars, extvars>>

\* cv.wait(lock, stopFlag || !tasks.empty())
WaitPredicate(o) == stopFlag[o] \/ tasks[o] # <<>>

\* Variant: the worker leaves as soon as the stop flag is set.
LoopExitOnStop(o) == stopFlag[o]
\* if (stopFlag && tasks.empty()) return;
LoopExit(o) == stopFlag[o] /\ tasks[o] = <<>>

\* threadLoop, first critical section: leave, or pop the front task and set busy.
WorkerTake(t) ==
    /\ tpc[t] = "wait"
    /\ alive[t] = "alive"
    /\ WaitPredicate(t)
    /\ IF LoopExit(t)
       THEN /\ tpc' = [tpc EXCEPT ![t] = "exited"]
            /\ UNCHANGED <<tasks, busy, ttask, started>>
       ELSE /\ ttask' = [ttask EXCEPT ![t] = Head(tasks[t])]
            /\ tasks' = [tasks EXCEPT ![t] = Tail(@)]
            /\ busy' = [busy EXCEPT ![t] = TRUE]
            /\ tpc' = [tpc EXCEPT ![t] = "run"]
            /\ started' = started \cup {Head(tasks[t]).id}
    /\ UNCHANGED <<stopFlag, hasException, exceptionPtr, worker, alive>>
    /\ UNCHANGED <<cvars, nextId, done, discarded, failedSince, lastClear, raises, dropped, consumed, queuedAtDtor>>
    /\ UNCHANGED <<avars, extvars>>

\* std::current_exception() in either catch clause: the thrown object itself.
CurrentException(thrown) == thrown

\* Variant: a failure already held is kept, a later one is lost.
CaptureFirst(ptr, thrown) == IF ptr # "null" THEN ptr ELSE CurrentException(thrown)
\* exceptionPtr = std::current_exception() (lines 142, 147): the failure of
\* this task replaces whatever the pointer held.
Capture(ptr, thrown) == CurrentException(thrown)

\* threadLoop, try { task(); } catch: run the task; a throw is captured in
\* exceptionPtr / hasException (written by the worker while busy is set).
WorkerRun(t) ==
    /\ tpc[t] = "run"
    /\ done' = done \cup {ttask[t].id}
    /\ IF ttask[t].throws # "none"
       THEN /\ exceptionPtr' = [exceptionPtr EXCEPT ![t] = Capture(@, ttask[t].throws)]
            /\ hasException' = [hasException EXCEPT ![t] = TRUE]
            /\ failedSince' = failedSince + 1
       ELSE UNCHANGED <<exceptionPtr, hasException, failedSince>>
    /\ tpc' = [tpc EXCEPT ![t] = "finish"]
    /\ UNCHANGED <<tasks, stopFlag, busy, worker, alive, ttask>>
    /\ UNCHANGED <<cvars, nextId, started, discarded, lastClear, raises, dropped, consumed, queuedAtDtor>>
    /\ UNCHANGED <<avars, extvars>>

\* threadLoop, second critical section: busy = false; cvFinished.notify_all().
WorkerFinish(t) ==
    /\ tpc[t] = "finish"
    /\ busy' = [busy EXCEPT ![t] = FALSE]
    /\ tpc' = [tpc EXCEPT ![t] = "wait"]
    /\ ttask' = [ttask EXCEPT ![t] = NoTask]
    /\ UNCHANGED <<tasks, stopFlag, hasException, exceptionPtr, worker, alive>>
    /\ UNCHANGED <<cvars, hvars>>
    /\ UNCHANGED <<avars, extvars>>

\* Variant: join() waits for !busy only.
JoinPredicateBusyOnly(o) == ~busy[o]
\* cvFinished.wait(lock, tasks.empty() && !busy) of join().
JoinPredicate(o) == tasks[o] = <<>> /\ ~busy[o]

\* What join() does once its wait is over: rethrow the stored exception,
\* throw the generic runtime_error when the pointer is null, or return.
JoinOutcome(o) ==
    IF hasException[o]
    THEN IF exceptionPtr[o] # "null"
         THEN "join_rethrow_" \o exceptionPtr[o]
         ELSE "join_generic"
    ELSE "join_ok"

JoinRaised(r) == r \in {"join_rethrow_std", "join_rethrow_unknown", "join_generic"}

\* join() is entered: the caller takes the lock and waits.
JoinCall(o) ==
    /\ cpc = "idle"
    /\ alive[o] = "alive"
    /\ cpc' = "join"
    /\ cobj' = o
    /\ UNCHANGED <<cres, carg, rvars, tvars, hvars>>
    /\ UNCHANGED <<avars, extvars>>

\* Variant: join() raises without resetting hasException.
JoinKeepsFlag(h) == h
\* hasException = false of join() (line 95), before it raises.
JoinResetFlag(h) == FALSE

\* join() leaves its wait: consume the failure state and raise, or return.
JoinReturn ==
    /\ cpc = "join"
    /\ JoinPredicate(cobj)
    /\ cres' = JoinOutcome(cobj)
    /\ hasException' = [hasException EXCEPT ![cobj] = JoinResetFlag(@)]
    /\ exceptionPtr' = [exceptionPtr EXCEPT ![cobj] = IF hasException[cobj] THEN "null" ELSE @]
    /\ cpc' = "idle"
    /\ failedSince' = 0
    /\ lastClear' = "join"
    /\ raises' = IF JoinRaised(JoinOutcome(cobj)) THEN raises + 1 ELSE raises
    /\ consumed' = IF JoinRaised(JoinOutcome(cobj)) THEN failedSince ELSE consumed
    /\ UNCHANGED <<tasks, stopFlag, busy, worker, alive, tvars, cobj, carg>>
    /\ UNCHANGED <<nextId, started, done, discarded, dropped, queuedAtDtor>>
    /\ UNCHANGED <<avars, extvars>>

\* Variant: a single tasks.pop() instead of the loop.
ClearQueueButOne(q) == IF q = <<>> THEN q ELSE Tail(q)
\* while (!tasks.empty()) tasks.pop();
ClearQueue(q) == <<>>

\* force_join() is entered: drop the queued tasks under the lock, then wait.
ForceJoinCall(o) ==
    /\ cpc = "idle"
    /\ alive[o] = "alive"
    /\ tasks' = [tasks EXCEPT ![o] = ClearQueue(@)]
    /\ discarded' = discarded \cup Ids(tasks[o])
    /\ cpc' = "force"
    /\ cobj' = o
    /\ UNCHANGED <<stopFlag, busy, hasException, exceptionPtr, worker, alive>>
    /\ UNCHANGED <<tvars, cres, carg, nextId, started, done, failedSince, lastClear, raises, dropped, consumed, queuedAtDtor>>
    /\ UNCHANGED <<avars, extvars>>

\* cvFinished.wait(lock, !busy) of force_join().
ForceJoinPredicate(o) == ~busy[o]

\* Variant: force_join() returns without resetting hasException.
ForceKeepsFlag(h) == h
\* hasException = false of force_join() (line 120).
ForceResetFlag(h) == FALSE

\* force_join() leaves its wait and resets the failure state.
ForceJoinReturn ==
    /\ cpc = "force"
    /\ ForceJoinPredicate(cobj)
    /\ hasException' = [hasException EXCEPT ![cobj] = ForceResetFlag(@)]
    /\ exceptionPtr' = [exceptionPtr EXCEPT ![cobj] = "null"]
    /\ cres' = "force_ok"
    /\ cpc' = "idle"
    /\ failedSince' = 0
    /\ lastClear' = "force"
    /\ dropped' = dropped + failedSince
    /\ UNCHANGED <<tasks, stopFlag, busy, worker, alive, tvars, cobj, carg>>
    /\ UNCHANGED <<nextId, started, done, discarded, raises, consumed, queuedAtDtor>>
    /\ UNCHANGED <<avars, extvars>>

\* ~ThreadRunner(), first part: stopFlag = true; cv.notify_all().
DtorCall(o) ==
    /\ cpc = "idle"
    /\ alive[o] = "alive"
    /\ stopFlag' = [stopFlag EXCEPT ![o] = TRUE]
    /\ cpc' = "dtor"
    /\ cobj' = o
    /\ queuedAtDtor' = queuedAtDtor \cup Ids(tasks[o])
    /\ UNCHANGED <<tasks, busy, hasException, exceptionPtr, worker, alive>>
    /\ UNCHANGED <<tvars, cres, carg>>
    /\ UNCHANGED <<nextId, started, done, discarded, failedSince, lastClear, raises, dropped, consumed>>
    /\ UNCHANGED <<avars, extvars>>

\* std::thread::join() on the handle an object holds: nothing to wait for
\* when the handle is not joinable, else wait for that thread to end.
ThreadJoined(o) == IF worker[o] = "none" THEN TRUE ELSE tpc[worker[o]] = "exited"

\* ~ThreadRunner(), second part: if (worker.joinable()) worker.join().
DtorReturn ==
    /\ cpc = "dtor"
    /\ ThreadJoined(cobj)
    /\ alive' = [alive EXCEPT ![cobj] = "destroyed"]
    /\ worker' = [worker EXCEPT ![cobj] = "none"]
    /\ cres' = "destroyed"
    /\ cpc' = "idle"
    /\ UNCHANGED <<tasks, stopFlag, busy, hasException, exceptionPtr>>
    /\ UNCHANGED <<tvars, cobj, carg, hvars>>
    /\ UNCHANGED <<avars, extvars>>

\* ------------------------------------------- one runner, never moved
TaskOf(id) == {[id |-> id, throws |-> x] : x \in Throws}

RunnerInit ==
    /\ InitRunners({"r1"})
    /\ InitCaller
    /\ InitHistory
    /\ InitPipeline
    /\ IdleExt

RunnerNext ==
    \/ \E t \in TaskOf(nextId) : Start("r1", t)
    \/ JoinCall("r1")
    \/ JoinReturn
    \/ ForceJoinCall("r1")
    \/ ForceJoinReturn
    \/ DtorCall("r1")
    \/ DtorReturn
    \/ WorkerTake("r1")
    \/ WorkerRun("r1")
    \/ WorkerFinish("r1")

\* The worker is a thread of its own: the scheduler runs it when it can run.
\* So is the caller inside the destructor: worker.join() returns once the
\* thread has ended.
RunnerFairness ==
    /\ WF_vars(WorkerTake("r1"))
    /\ WF_vars(WorkerRun("r1"))
    /\ WF_vars(WorkerFinish("r1"))
    /\ WF_vars(DtorReturn)

SpecRunner == RunnerInit /\ [][RunnerNext]_vars /\ RunnerFairness

\* ------------------------------------------- ownership transfer (moves)

\* ThreadRunner() for a second object: same as the first (lines 27-29).
Construct(o) ==
    /\ cpc = "idle"
    /\ alive[o] = "unborn"
    /\ alive' = [alive EXCEPT ![o] = "alive"]
    /\ worker' = [worker EXCEPT ![o] = o]
    /\ tpc' = [tpc EXCEPT ![o] = "wait"]
    /\ UNCHANGED <<tasks, stopFlag, busy, hasException, exceptionPtr, ttask, cvars, hvars>>
    /\ UNCHANGED <<avars, extvars>>

\* The assignments shared by both moves: the thread handle and the queue are
\* moved out of `src`, the flags are copied.  The thread itself is untouched:
\* it keeps running src's threadLoop on src's mutex, queue and flags.
TakeOver(dst, src) ==
    /\ worker' = [worker EXCEPT ![dst] = worker[src], ![src] = "none"]
    /\ stopFlag' = [stopFlag EXCEPT ![dst] = stopFlag[src]]
    /\ busy' = [busy EXCEPT ![dst] = busy[src]]
    /\ hasException' = [hasException EXCEPT ![dst] = hasException[src]]
    /\ exceptionPtr' = [exceptionPtr EXCEPT ![dst] = exceptionPtr[src]]
    /\ tasks' = [tasks EXCEPT ![dst] = tasks[src], ![src] = <<>>]

\* ThreadRunner(ThreadRunner&& other)
MoveConstruct(dst, src) ==
    /\ cpc = "idle"
    /\ alive[dst] = "unborn"
    /\ alive[src] = "alive"
    /\ worker[src] # "none"
    /\ TakeOver(dst, src)
    /\ alive' = [alive EXCEPT ![dst] = "alive"]
    /\ UNCHANGED <<tvars, cvars, hvars>>
    /\ UNCHANGED <<avars, extvars>>

\* operator=(ThreadRunner&& other), first part: stop this object's own worker.
MoveAssignCall(dst, src) ==
    /\ cpc = "idle"
    /\ dst # src
    /\ alive[dst] = "alive"
    /\ alive[src] = "alive"
    /\ worker[src] # "none"
    /\ stopFlag' = [stopFlag EXCEPT ![dst] = TRUE]
    /\ cpc' = "assign"
    /\ cobj' = dst
    /\ carg' = src
    /\ UNCHANGED <<tasks, busy, hasException, exceptionPtr, worker, alive>>
    /\ UNCHANGED <<tvars, cres, hvars>>
    /\ UNCHANGED <<avars, extvars>>

\* operator=(ThreadRunner&& other), second part: after worker.join(), take over.
MoveAssignReturn ==
    /\ cpc = "assign"
    /\ ThreadJoined(cobj)
    /\ TakeOver(cobj, carg)
    /\ cpc' = "idle"
    /\ cres' = "assigned"
    /\ UNCHANGED <<alive, tvars, cobj, carg, hvars>>
    /\ UNCHANGED <<avars, extvars>>

\* A worker whose object has been destroyed (the destructor of a moved-from
\* object does not join it) reads freed memory in its loop: it may see the
\* stop flag and leave, or never leave.
WorkerDangling(t) ==
    /\ alive[t] = "destroyed"
    /\ tpc[t] \in {"wait", "run", "finish"}
    /\ \E outcome \in {"exited", "hung"} : tpc' = [tpc EXCEPT ![t] = outcome]
    /\ UNCHANGED <<rvars, ttask, cvars, hvars>>
    /\ UNCHANGED <<avars, extvars>>

MoveInit ==
    /\ InitRunners({"r1"})
    /\ InitCaller
    /\ InitHistory
    /\ InitPipeline
    /\ IdleExt

MoveNext ==
    \/ \E o \in Objs : \E t \in TaskOf(nextId) : Start(o, t)
    \/ Construct("r2")
    \/ MoveConstruct("r2", "r1")
    \/ MoveAssignCall("r2", "r1")
    \/ MoveAssignReturn
    \/ \E o \in Objs : JoinCall(o)
    \/ JoinReturn
    \/ \E o \in Objs : DtorCall(o)
    \/ DtorReturn
    \/ \E t \in Objs : WorkerTake(t)
    \/ \E t \in Objs : WorkerRun(t)
    \/ \E t \in Objs : WorkerFinish(t)
    \/ \E t \in Objs : WorkerDangling(t)

MoveFairness ==
    \A t \in Objs :
        /\ WF_vars(WorkerTake(t))
        /\ WF_vars(WorkerRun(t))
        /\ WF_vars(WorkerFinish(t))

SpecMove == MoveInit /\ [][MoveNext]_vars /\ MoveFairness

\* C6: after a move the destination runner r2 has a worker serving its own
\* queue: a join() on it or its destructor is never stuck (it can return, or
\* some thread can still take a step that leads there).
C6_DestinationNeverStuck ==
    (cobj = "r2" /\ cpc \in {"join", "dtor"} /\ worker["r2"] = "r1") => ENABLED MoveNext

\* C6, same claim on the task itself: a task queued on the destination after
\* the move is eventually executed.
C6_DestinationRunsTasks ==
    \A id \in 1..MaxTasks :
        (worker["r2"] = "r1" /\ id \in Ids(tasks["r2"])) ~> (id \in done)

\* ------------------------------------------- async decode pipeline
\* decode_worker is the runner r1; the caller is the thread of the binding.
MaxSubmits == 3
NumOfFile == 2
ResultQueueSize == 1

\* The requests submitted: two well-formed ones and one whose lists differ
\* in length.
SubmitRequests ==
    {[files |-> <<"A", "B">>, frames |-> <<0, 10>>, bgr |-> FALSE],
     [files |-> <<"A">>, frames |-> <<0>>, bgr |-> TRUE],
     [files |-> <<"A", "B">>, frames |-> <<0>>, bgr |-> FALSE]}

\* The requests a retrieve may name: the submitted ones, and requests that
\* differ from a submitted one in one component only (a file, the order of
\* the files, a frame id, the order of the frame ids, a length, the flag).
Requests ==
    SubmitRequests \cup
    {[files |-> <<"A", "A">>, frames |-> <<0, 10>>, bgr |-> FALSE],
     [files |-> <<"B", "A">>, frames |-> <<0, 10>>, bgr |-> FALSE],
     [files |-> <<"A", "B">>, frames |-> <<0, 11>>, bgr |-> FALSE],
     [files |-> <<"A", "B">>, frames |-> <<10, 0>>, bgr |-> FALSE],
     [files |-> <<"A", "B">>, frames |-> <<0, 10>>, bgr |-> TRUE],
     [files |-> <<"A">>, frames |-> <<0>>, bgr |-> FALSE],
     [files |-> <<"A">>, frames |-> <<0, 10>>, bgr |-> FALSE]}

\* The bounded queue holding the results: push_back waits while it is full,
\* pop_front waits while it is empty.
QueueFull(q) == Len(q) >= ResultQueueSize
QueueEmpty(q) == q = <<>>

\* run_rgb_out: invalid_argument when the two lists differ in length or
\* name more files than num_of_file; else the decode succeeds or throws.
RunRgbOutOutcomes(req) ==
    IF Len(req.files) # Len(req.frames) THEN {"std"}
    ELSE IF Len(req.files) > NumOfFile THEN {"std"}
    ELSE {"frames", "std", "unknown"}

\* One RGBFrame per file, named by what was decoded.
DecodedFrames(req) ==
    [i \in 1..Len(req.files) |-> <<req.files[i], req.frames[i], req.bgr>>]

\* The task's DecodeResult before the decode (lines 710-714).
FreshResult(req, rid) ==
    [file_path_list |-> req.files, frame_id_list |-> req.frames, as_bgr |-> req.bgr,
     is_ready |-> FALSE, decoded_frames |-> <<>>, exception |-> "null", rid |-> rid]

\* Variant: catch (const std::exception&) only.
AsyncCatchesStdOnly(kind) == kind = "std"
\* catch (...) of the task: every kind of exception is caught.
AsyncCatches(kind) == TRUE

AsyncTask(rid, req) == [id |-> rid, throws |-> "none", req |-> req]

\* has_pending_task = true; decode_worker.start(lambda)
EnqueueDecode(req) ==
    /\ pending' = TRUE
    /\ tasks' = [tasks EXCEPT !["r1"] = Enqueue(@, AsyncTask(nsub + 1, req))]
    /\ nsub' = nsub + 1
    /\ cres' = "submitted"
    /\ cpc' = "idle"

\* Variant: the submit never waits for the task in flight.
HasPendingTaskIgnored == FALSE
\* if (has_pending_task) of DecodeN12ToRGBAsync, read under async_mutex.
HasPendingTask == pending

\* DecodeN12ToRGBAsync, entry: with a task pending, unlock and join the
\* worker; with none, start the new task at once (the queue is not touched).
SubmitCall(req) ==
    /\ cpc = "idle"
    /\ nsub < MaxSubmits
    /\ IF HasPendingTask
       THEN /\ cpc' = "submit_join"
            /\ carg' = req
            /\ UNCHANGED <<pending, tasks, nsub, cres, rq>>
       ELSE /\ EnqueueDecode(req)
            /\ UNCHANGED <<carg, rq>>
    /\ UNCHANGED <<stopFlag, busy, hasException, exceptionPtr, worker, alive>>
    /\ UNCHANGED <<tvars, cobj, hvars, wres, failedRids, published, cgot, superseded>>
    /\ UNCHANGED extvars

\* Variant: the old result is left in the queue.
DrainQueueSkipped(q) == q
\* while (!decode_result_queue.empty()) decode_result_queue.pop_front();
DrainQueue(q) == <<>>

\* DecodeN12ToRGBAsync, after decode_worker.join(): a failure stored in the
\* runner is raised out of the call; else relock, clear the flag, drain the
\* queue and start the new task.
SubmitJoined ==
    /\ cpc = "submit_join"
    /\ JoinPredicate("r1")
    /\ IF hasException["r1"]
       THEN /\ cres' = JoinOutcome("r1")
            /\ hasException' = [hasException EXCEPT !["r1"] = JoinResetFlag(@)]
            /\ exceptionPtr' = [exceptionPtr EXCEPT !["r1"] = "null"]
            /\ cpc' = "idle"
            /\ UNCHANGED <<pending, tasks, nsub, rq, superseded>>
       ELSE /\ EnqueueDecode(carg)
            /\ rq' = DrainQueue(rq)
            /\ superseded' = superseded \cup {nsub}
            /\ UNCHANGED <<hasException, exceptionPtr>>
    /\ UNCHANGED <<stopFlag, busy, worker, alive>>
    /\ UNCHANGED <<tvars, cobj, carg, hvars, wres, failedRids, published, cgot>>
    /\ UNCHANGED extvars

\* The task, up to the push: run_rgb_out, then the result is filled in with
\* the frames or, in the catch block, with the exception.  An exception the
\* catch clause does not take leaves the task and is stored by threadLoop.
AsyncDecode ==
    /\ tpc["r1"] = "run"
    /\ \E outcome \in RunRgbOutOutcomes(ttask["r1"].req) :
         LET req == ttask["r1"].req
             rid == ttask["r1"].id
             res == FreshResult(req, rid)
         IN IF outcome = "frames"
            THEN /\ wres' = [res EXCEPT !.decoded_frames = DecodedFrames(req), !.is_ready = TRUE]
                 /\ tpc' = [tpc EXCEPT !["r1"] = "push"]
                 /\ UNCHANGED <<failedRids, hasException, exceptionPtr, done>>
            ELSE /\ failedRids' = failedRids \cup {rid}
                 /\ IF AsyncCatches(outcome)
                    THEN /\ wres' = [res EXCEPT !.exception = outcome, !.is_ready = TRUE]
                         /\ tpc' = [tpc EXCEPT !["r1"] = "push"]
                         /\ UNCHANGED <<hasException, exceptionPtr, done>>
                    ELSE /\ exceptionPtr' = [exceptionPtr EXCEPT !["r1"] = CurrentException(outcome)]
                         /\ hasException' = [hasException EXCEPT !["r1"] = TRUE]
                         /\ tpc' = [tpc EXCEPT !["r1"] = "finish"]
                         /\ done' = done \cup {rid}
                         /\ UNCHANGED wres
    /\ UNCHANGED <<tasks, stopFlag, busy, worker, alive, ttask, cvars>>
    /\ UNCHANGED <<nextId, started, discarded, failedSince, lastClear, raises, dropped, consumed, queuedAtDtor>>
    /\ UNCHANGED <<pending, rq, nsub, published, cgot, superseded>>
    /\ UNCHANGED extvars

\* decode_result_queue.push_back(result): waits while the queue is full.
AsyncPush ==
    /\ tpc["r1"] = "push"
    /\ ~QueueFull(rq)
    /\ rq' = Append(rq, wres)
    /\ published' = published \cup {wres.rid}
    /\ tpc' = [tpc EXCEPT !["r1"] = "clear"]
    /\ UNCHANGED <<rvars, ttask, cvars, hvars, pending, wres, nsub, failedRids, cgot, superseded>>
    /\ UNCHANGED extvars

\* { lock_guard lock(async_mutex); has_pending_task = false; }, task returns.
AsyncClearPending ==
    /\ tpc["r1"] = "clear"
    /\ pending' = FALSE
    /\ tpc' = [tpc EXCEPT !["r1"] = "finish"]
    /\ done' = done \cup {ttask["r1"].id}
    /\ UNCHANGED <<rvars, ttask, cvars, rq, wres, nsub, failedRids, published, cgot, superseded>>
    /\ UNCHANGED <<nextId, started, discarded, failedSince, lastClear, raises, dropped, consumed, queuedAtDtor>>
    /\ UNCHANGED extvars

\* Variant: the entry check is left out.
NoTaskCheckOmitted == FALSE
\* if (!has_pending_task && decode_result_queue.empty()) throw
NoTaskAndEmpty == ~pending /\ QueueEmpty(rq)

\* DecodeN12ToRGBAsyncGetBuffer, entry: the check under async_mutex.
RetrieveCall(req) ==
    /\ cpc = "idle"
    /\ IF NoTaskAndEmpty
       THEN /\ cres' = "no_task"
            /\ UNCHANGED <<cpc, carg>>
       ELSE /\ cpc' = "retrieve_pop"
            /\ carg' = req
            /\ UNCHANGED cres
    /\ UNCHANGED <<rvars, tvars, cobj, hvars, avars, extvars>>

\* Variant: validate_request without the as_bgr comparison.
ValidateRequestNoFlag(result, filepaths, frame_ids, as_bgr) ==
    IF Len(result.file_path_list) # Len(filepaths)
         \/ Len(result.frame_id_list) # Len(frame_ids)
    THEN FALSE
    ELSE \A i \in 1..Len(filepaths) :
            ~(result.file_path_list[i] # filepaths[i] \/ result.frame_id_list[i] # frame_ids[i])
\* validate_request: sizes, colour flag, then element by element.
ValidateRequest(result, filepaths, frame_ids, as_bgr) ==
    IF Len(result.file_path_list) # Len(filepaths)
         \/ Len(result.frame_id_list) # Len(frame_ids)
    THEN FALSE
    ELSE IF result.as_bgr # as_bgr
    THEN FALSE
    ELSE \A i \in 1..Len(filepaths) :
            ~(result.file_path_list[i] # filepaths[i] \/ result.frame_id_list[i] # frame_ids[i])

\* DecodeN12ToRGBAsyncGetBuffer after the pop: the chain of checks.
RetrieveOutcome(result, req) ==
    IF ~result.is_ready THEN "not_ready"
    ELSE IF result.exception # "null" THEN "task_failure"
    ELSE IF ~ValidateRequest(result, req.files, req.frames, req.bgr) THEN "mismatch"
    ELSE "frames"

\* DecodeResult result = decode_result_queue.pop_front(): waits while empty.
RetrievePop ==
    /\ cpc = "retrieve_pop"
    /\ ~QueueEmpty(rq)
    /\ rq' = Tail(rq)
    /\ cgot' = Head(rq)
    /\ cres' = RetrieveOutcome(Head(rq), carg)
    /\ cpc' = "idle"
    /\ UNCHANGED <<rvars, tvars, cobj, carg, hvars, pending, wres, nsub, failedRids, published, superseded>>
    /\ UNCHANGED extvars

\* Variant: the wait is left out.
NeedJoinNever == FALSE
\* waitForPendingAsyncTask: need_join = has_pending_task, read under async_mutex.
NeedJoin == pending

\* Variant: the buffered result is left where it is.
ClearDecodeResultBufferSkipped(q) == q
\* clearDecodeResultBuffer: pop until the queue is empty.
ClearDecodeResultBuffer(q) == <<>>

\* What the DecodeN12ToRGB binding hands back for an outcome of run_rgb_out:
\* the frames, a runtime_error made from a std::exception, or the foreign
\* exception itself, which its catch clause does not take.
SyncOutcome(outcome) ==
    IF outcome = "frames" THEN "sync_frames"
    ELSE IF outcome = "std" THEN "sync_error"
    ELSE "sync_unknown"

\* The binding after the wait: empty the queue, then decode on the caller.
SyncClearAndDecode(req) ==
    /\ rq' = ClearDecodeResultBuffer(rq)
    /\ \E outcome \in RunRgbOutOutcomes(req) : cres' = SyncOutcome(outcome)
    /\ cpc' = "idle"

\* DecodeN12ToRGB (binding), entry: join the worker when a task is pending,
\* else go on at once.
SyncCall(req) ==
    /\ cpc = "idle"
    /\ IF NeedJoin
       THEN /\ cpc' = "sync_join"
            /\ carg' = req
            /\ UNCHANGED <<cres, rq>>
       ELSE /\ SyncClearAndDecode(req)
            /\ UNCHANGED carg
    /\ UNCHANGED <<rvars, tvars, cobj, hvars>>
    /\ UNCHANGED <<pending, wres, nsub, failedRids, published, cgot, superseded>>
    /\ UNCHANGED extvars

\* DecodeN12ToRGB (binding), after decode_worker.join(): a failure stored in
\* the runner leaves the call as an error; else empty the queue and decode.
SyncJoined ==
    /\ cpc = "sync_join"
    /\ JoinPredicate("r1")
    /\ IF hasException["r1"]
       THEN /\ cres' = "sync_error"
            /\ hasException' = [hasException EXCEPT !["r1"] = JoinResetFlag(@)]
            /\ exceptionPtr' = [exceptionPtr EXCEPT !["r1"] = "null"]
            /\ cpc' = "idle"
            /\ UNCHANGED rq
       ELSE /\ SyncClearAndDecode(carg)
            /\ UNCHANGED <<hasException, exceptionPtr>>
    /\ UNCHANGED <<tasks, stopFlag, busy, worker, alive>>
    /\ UNCHANGED <<tvars, cobj, carg, hvars>>
    /\ UNCHANGED <<pending, wres, nsub, failedRids, published, cgot, superseded>>
    /\ UNCHANGED extvars

AsyncInit ==
    /\ InitRunners({"r1"})
    /\ InitCaller
    /\ InitHistory
    /\ InitPipeline
    /\ IdleExt

AsyncNext ==
    \/ \E req \in SubmitRequests : SubmitCall(req)
    \/ SubmitJoined
    \/ \E req \in Requests : RetrieveCall(req)
    \/ RetrievePop
    \/ WorkerTake("r1")
    \/ AsyncDecode
    \/ AsyncPush
    \/ AsyncClearPending
    \/ WorkerFinish("r1")

AsyncFairness ==
    /\ WF_vars(WorkerTake("r1"))
    /\ WF_vars(AsyncDecode)
    /\ WF_vars(AsyncPush)
    /\ WF_vars(AsyncClearPending)
    /\ WF_vars(WorkerFinish("r1"))

SpecAsync == AsyncInit /\ [][AsyncNext]_vars /\ AsyncFairness

\* The pipeline with all three entry points: submit, retrieve and the
\* synchronous decode, each called with one of the submitted requests.
PipelineNext ==
    \/ \E req \in SubmitRequests : SubmitCall(req)
    \/ SubmitJoined
    \/ \E req \in SubmitRequests : RetrieveCall(req)
    \/ RetrievePop
    \/ \E req \in SubmitRequests : SyncCall(req)
    \/ SyncJoined
    \/ WorkerTake("r1")
    \/ AsyncDecode
    \/ AsyncPush
    \/ AsyncClearPending
    \/ WorkerFinish("r1")

SpecPipeline == AsyncInit /\ [][PipelineNext]_vars /\ AsyncFairness

\* ------------------------------------------- reader caches and the async task
\* The entry points that touch the reader caches from the caller's thread:
\* Decode (run), clearAllReaders, ReleaseMemPools, ReleaseDecoder and the
\* destructor.  Each starts with waitForPendingAsyncTask (the destructor with
\* the same code inline); ReleaseDecoder and the destructor reach a second
\* one inside clearAllReaders, which finds the flag cleared by then.
GuardedFunctions ==
    {"Decode", "clearAllReaders", "ReleaseMemPools", "ReleaseDecoder", "~PyNvSampleReader"}

\* The request used where the content of the request does not matter.
OneRequest == [files |-> <<"A", "B">>, frames |-> <<0, 10>>, bgr |-> FALSE]

\* What follows the wait: the cache lookups of run, or the loop over
\* VideoReaderMap that clears / releases every cache.  The destructor also
\* clears the result queue and goes on to destroy decode_worker.
GuardedBody(fn) ==
    /\ cres' = fn
    /\ IF fn = "~PyNvSampleReader"
       THEN /\ rq' = <<>>
            /\ stopFlag' = [stopFlag EXCEPT !["r1"] = TRUE]
            /\ cpc' = "reader_dtor"
       ELSE /\ cpc' = "idle"
            /\ UNCHANGED <<rq, stopFlag>>

\* Entry of one of these functions: join the worker when a task is pending,
\* else go on at once.
GuardedCall(fn) ==
    /\ cpc = "idle"
    /\ alive["r1"] = "alive"
    /\ queuedAtDtor' = IF fn = "~PyNvSampleReader"
                       THEN queuedAtDtor \cup Ids(tasks["r1"]) ELSE queuedAtDtor
    /\ IF NeedJoin
       THEN /\ cpc' = "guard_join_" \o fn
            /\ UNCHANGED <<cres, rq, stopFlag>>
       ELSE GuardedBody(fn)
    /\ UNCHANGED <<tasks, busy, hasException, exceptionPtr, worker, alive>>
    /\ UNCHANGED <<tvars, cobj, carg>>
    /\ UNCHANGED <<nextId, started, done, discarded, failedSince, lastClear, raises, dropped, consumed>>
    /\ UNCHANGED <<pending, wres, nsub, failedRids, published, cgot, superseded>>
    /\ UNCHANGED extvars

\* After decode_worker.join(): a failure stored in the runner leaves the
\* call; else the body runs.
GuardedJoined(fn) ==
    /\ cpc = "guard_join_" \o fn
    /\ JoinPredicate("r1")
    /\ IF hasException["r1"]
       THEN /\ cres' = JoinOutcome("r1")
            /\ hasException' = [hasException EXCEPT !["r1"] = JoinResetFlag(@)]
            /\ exceptionPtr' = [exceptionPtr EXCEPT !["r1"] = "null"]
            /\ cpc' = "idle"
            /\ UNCHANGED <<rq, stopFlag>>
       ELSE /\ GuardedBody(fn)
            /\ UNCHANGED <<hasException, exceptionPtr>>
    /\ UNCHANGED <<tasks, busy, worker, alive>>
    /\ UNCHANGED <<tvars, cobj, carg, hvars>>
    /\ UNCHANGED <<pending, wres, nsub, failedRids, published, cgot, superseded>>
    /\ UNCHANGED extvars

\* End of ~PyNvSampleReader(): the member decode_worker is destroyed, which
\* joins its thread; the reader is gone and takes no more calls.
ReaderDtorReturn ==
    /\ cpc = "reader_dtor"
    /\ ThreadJoined("r1")
    /\ alive' = [alive EXCEPT !["r1"] = "destroyed"]
    /\ worker' = [worker EXCEPT !["r1"] = "none"]
    /\ cpc' = "destroyed"
    /\ UNCHANGED <<tasks, stopFlag, busy, hasException, exceptionPtr>>
    /\ UNCHANGED <<tvars, cobj, cres, carg, hvars>>
    /\ UNCHANGED <<avars, extvars>>

ReleaseNext ==
    \/ SubmitCall(OneRequest)
    \/ SubmitJoined
    \/ RetrieveCall(OneRequest)
    \/ RetrievePop
    \/ SyncCall(OneRequest)
    \/ SyncJoined
    \/ \E fn \in GuardedFunctions : GuardedCall(fn)
    \/ \E fn \in GuardedFunctions : GuardedJoined(fn)
    \/ ReaderDtorReturn
    \/ WorkerTake("r1")
    \/ AsyncDecode
    \/ AsyncPush
    \/ AsyncClearPending
    \/ WorkerFinish("r1")

SpecRelease == AsyncInit /\ [][ReleaseNext]_vars /\ AsyncFairness

\* ------------------------------------------- key-frame classifier
\* (inc/GopDecoderUtils.hpp)  A packet is a null pointer or its leading bytes;
\* codec families are named; the predicates give "true", "false" or throw.
NullPacket == [null |-> TRUE, bytes |-> <<>>]
Packet(bytes) == [null |-> FALSE, bytes |-> bytes]

H264_NAL_SEI == 6
H264_NAL_SPS == 7
H264_NAL_PPS == 8
H264_NAL_AUD == 9
HEVC_NAL_VPS == 32
HEVC_NAL_SPS == 33
HEVC_NAL_PPS == 34
HEVC_NAL_PREFIX_SEI == 39
HEVC_NAL_SUFFIX_SEI == 40
OBU_SEQUENCE_HEADER == 1
AV_PKT_FLAG_KEY == 1

\* pVideo[i], bytes counted from 0
Byte(pVideo, i) == pVideo.bytes[i + 1]

\* uint8_t b = pVideo[2] == 1 ? pVideo[3] : pVideo[4];
NalHeaderByte(pVideo) == IF Byte(pVideo, 2) = 1 THEN Byte(pVideo, 3) ELSE Byte(pVideo, 4)

\* b >> 1, b & 0x1f and (obu_header >> 3) & 0x0F on a byte
HevcNalUnitType(b) == b \div 2
H264NalUnitType(b) == b % 32
Av1ObuType(obu_header) == (obu_header \div 8) % 16

\* The unit-type test of each supported family (shared by both predicates).
HevcParameterSet(pVideo) ==
    HevcNalUnitType(NalHeaderByte(pVideo)) \in
        {HEVC_NAL_VPS, HEVC_NAL_SPS, HEVC_NAL_PPS, HEVC_NAL_PREFIX_SEI, HEVC_NAL_SUFFIX_SEI}
H264ParameterSet(pVideo) ==
    H264NalUnitType(NalHeaderByte(pVideo)) \in
        {H264_NAL_SEI, H264_NAL_SPS, H264_NAL_PPS, H264_NAL_AUD}
Av1SequenceHeader(pVideo) == Av1ObuType(Byte(pVideo, 0)) = OBU_SEQUENCE_HEADER

\* demux_flags & AV_PKT_FLAG_KEY
HasKeyFlag(demux_flags) == (demux_flags \div AV_PKT_FLAG_KEY) % 2 = 1

BoolResult(b) == IF b THEN "true" ELSE "false"

\* Variant: an unsupported codec is answered with false.
UnsupportedCodecSilent(codec_id) == "false"
\* throw std::domain_error("[ERROR] Unsupported video codec: ...")
UnsupportedCodec(codec_id) == "domain_error"

\* iskeyFrame: the null check comes first, then the codec chain.
iskeyFrame(codec_id, pVideo, demux_flags) ==
    IF pVideo.null THEN "false"
    ELSE IF codec_id = "HEVC" THEN BoolResult(HasKeyFlag(demux_flags) /\ HevcParameterSet(pVideo))
    ELSE IF codec_id = "H264" THEN BoolResult(HasKeyFlag(demux_flags) /\ H264ParameterSet(pVideo))
    ELSE IF codec_id = "AV1" THEN BoolResult(HasKeyFlag(demux_flags) /\ Av1SequenceHeader(pVideo))
    ELSE UnsupportedCodec(codec_id)

\* hasKeyFrameNalType: the same chain without the flag.
hasKeyFrameNalType(codec_id, pVideo) ==
    IF pVideo.null THEN "false"
    ELSE IF codec_id = "HEVC" THEN BoolResult(HevcParameterSet(pVideo))
    ELSE IF codec_id = "H264" THEN BoolResult(H264ParameterSet(pVideo))
    ELSE IF codec_id = "AV1" THEN BoolResult(Av1SequenceHeader(pVideo))
    ELSE UnsupportedCodec(codec_id)

\* The classifier's callers: every codec family the demuxer can report
\* (three of them handled), packets of each family and the null packet, and
\* every combination of the two low flag bits.
Codecs == {"HEVC", "H264", "AV1", "VP9", "MPEG4"}
SupportedCodecs == {"HEVC", "H264", "AV1"}
SamplePackets ==
    {NullPacket,
     Packet(<<0, 0, 1, 103, 66>>),
     Packet(<<0, 0, 0, 1, 65>>),
     Packet(<<0, 0, 0, 1, 64>>),
     Packet(<<0, 0, 1, 2, 1>>),
     Packet(<<10, 11, 0, 0, 0>>),
     Packet(<<50, 0, 1, 7, 0>>)}
DemuxFlags == 0..3

CallIsKeyFrame(codec_id, pVideo, demux_flags) ==
    /\ kcall' = [fn |-> "iskeyFrame", codec_id |-> codec_id, pVideo |-> pVideo, demux_flags |-> demux_flags]
    /\ kres' = iskeyFrame(codec_id, pVideo, demux_flags)
    /\ UNCHANGED <<corevars, gvars, lvars, pvars, dvars, svars>>

CallHasKeyFrameNalType(codec_id, pVideo) ==
    /\ kcall' = [fn |-> "hasKeyFrameNalType", codec_id |-> codec_id, pVideo |-> pVideo, demux_flags |-> 0]
    /\ kres' = hasKeyFrameNalType(codec_id, pVideo)
    /\ UNCHANGED <<corevars, gvars, lvars, pvars, dvars, svars>>

CodecInit ==
    /\ IdleCore
    /\ IdleGop
    /\ IdleCache
    /\ IdleClassifier
    /\ IdleParallel
    /\ IdleDecode
    /\ IdleSeek

CodecNext ==
    \/ \E codec_id \in Codecs, pVideo \in SamplePackets, demux_flags \in DemuxFlags :
          CallIsKeyFrame(codec_id, pVideo, demux_flags)
    \/ \E codec_id \in Codecs, pVideo \in SamplePackets :
          CallHasKeyFrameNalType(codec_id, pVideo)

SpecCodec == CodecInit /\ [][CodecNext]_vars

\* ------------------------------------------- GOP index
\* (inc/GopDecoderUtils.hpp)  parse_gop_start_idx and parse_gop_length.
MaxFrames == 3
Timestamps == {10, 20, 30}

\* The two kinds of packet of the streams: a flagged parameter-set unit and
\* an unflagged slice (H.264 byte layout).
KeyPacket == [pVideo |-> Packet(<<0, 0, 1, 103, 66>>), flags |-> 1]
PlainPacket == [pVideo |-> Packet(<<0, 0, 0, 1, 65>>), flags |-> 0]

Frame(pts, pkt) == [pts |-> pts, pVideo |-> pkt.pVideo, flags |-> pkt.flags]

\* What Demux hands out before it reports zero bytes: every stream of up to
\* MaxFrames packets, and the stream of ten frames with key frames 0, 4, 8.
SmallStreams ==
    UNION {[1..n -> {Frame(t, k) : t \in Timestamps, k \in {KeyPacket, PlainPacket}}] :
              n \in 0..MaxFrames}
TenFrameStream ==
    [i \in 1..10 |-> Frame(100 + i, IF i \in {1, 5, 9} THEN KeyPacket ELSE PlainPacket)]
Streams == SmallStreams \cup {TenFrameStream}

InitGop ==
    /\ demuxed \in Streams
    /\ demuxFailAt \in 0..Len(demuxed)
    /\ videoCodec \in {"H264", "VP9"}
    /\ isVFR \in BOOLEAN
    /\ pts_keyFrame_pair = <<>>
    /\ gop_start_idx = <<>>
    /\ frame2pts = EmptyMap
    /\ pts2frame = EmptyMap
    /\ gpc = "demux"
    /\ sorted_frame_ids = <<>>
    /\ first_frame_ids \in {<<>>, <<0>>}
    /\ gop_length = <<>>
    /\ lres = "none"

\* The do-while loop over Demux: the first call that fails ("demux_error") or
\* whose packet iskeyFrame rejects ("domain_error"), 0 when there is none.
DemuxFailure(k) ==
    IF demuxFailAt = k THEN "demux_error"
    ELSE IF iskeyFrame(videoCodec, demuxed[k].pVideo, demuxed[k].flags) = "domain_error"
    THEN "domain_error"
    ELSE "none"

FirstFailure ==
    IF \E k \in 1..Len(demuxed) : DemuxFailure(k) # "none"
    THEN DemuxFailure(CHOOSE k \in 1..Len(demuxed) :
                          /\ DemuxFailure(k) # "none"
                          /\ \A j \in 1..(k - 1) : DemuxFailure(j) = "none")
    ELSE "none"

\* pts_keyFrame_pair.emplace_back(timestamp, is_key_frame), one per packet
DemuxedPairs ==
    [k \in 1..Len(demuxed) |->
        [pts |-> demuxed[k].pts,
         key |-> iskeyFrame(videoCodec, demuxed[k].pVideo, demuxed[k].flags) = "true"]]

RemoveAt(seq, i) == [j \in 1..(Len(seq) - 1) |-> IF j < i THEN seq[j] ELSE seq[j + 1]]

\* std::sort by timestamp: the pairs in non-decreasing timestamp order; the
\* order of pairs with equal timestamps is not specified, so every such
\* arrangement is an outcome.
RECURSIVE SortOutcomes(_)
SortOutcomes(seq) ==
    IF seq = <<>> THEN {<<>>}
    ELSE UNION {{<<seq[i]>> \o rest : rest \in SortOutcomes(RemoveAt(seq, i))} :
                   i \in {j \in 1..Len(seq) : \A k \in 1..Len(seq) : seq[j].pts <= seq[k].pts}}

\* The for loop of lines 432-444: the index of every key frame, in order.
RECURSIVE KeyFrameIndices(_, _, _)
KeyFrameIndices(pairs, current_frame_idx, acc) ==
    IF current_frame_idx >= Len(pairs) THEN acc
    ELSE KeyFrameIndices(pairs, current_frame_idx + 1,
                         IF pairs[current_frame_idx + 1].key
                         THEN Append(acc, current_frame_idx) ELSE acc)

\* Variant: the trailing sentinel is not pushed.
PushSentinelMissing(table, current_frame_idx) == table
\* gop_start_idx.push_back(current_frame_idx) after the loop (line 445).
PushSentinel(table, current_frame_idx) == Append(table, current_frame_idx)

GopStartIdx(pairs) == PushSentinel(KeyFrameIndices(pairs, 0, <<>>), Len(pairs))

\* if (gop_start_idx.size() <= 0) throw
GopTableEmpty(table) == Len(table) <= 0

\* frame2pts[current_frame_idx] = current_timestamp
Frame2Pts(pairs) == [i \in 0..(Len(pairs) - 1) |-> pairs[i + 1].pts]

\* Variant: the first frame with a timestamp keeps the entry.
Pts2FrameFirst(pairs) ==
    [t \in {pairs[i].pts : i \in 1..Len(pairs)} |->
        CHOOSE i \in 0..(Len(pairs) - 1) :
            /\ pairs[i + 1].pts = t
            /\ \A j \in 0..(Len(pairs) - 1) : pairs[j + 1].pts = t => i <= j]
\* pts2frame[current_timestamp] = current_frame_idx: a later frame with the
\* same timestamp overwrites the entry.
Pts2Frame(pairs) ==
    [t \in {pairs[i].pts : i \in 1..Len(pairs)} |->
        CHOOSE i \in 0..(Len(pairs) - 1) :
            /\ pairs[i + 1].pts = t
            /\ \A j \in 0..(Len(pairs) - 1) : pairs[j + 1].pts = t => j <= i]

\* parse_gop_start_idx, the whole call.
ParseGopStartIdx ==
    /\ gpc = "demux"
    /\ IF FirstFailure # "none"
       THEN /\ gpc' = FirstFailure
            /\ UNCHANGED <<pts_keyFrame_pair, gop_start_idx, frame2pts, pts2frame>>
       ELSE \E pairs \in SortOutcomes(DemuxedPairs) :
              /\ pts_keyFrame_pair' = pairs
              /\ frame2pts' = IF isVFR THEN Frame2Pts(pairs) ELSE frame2pts
              /\ pts2frame' = IF isVFR THEN Pts2Frame(pairs) ELSE pts2frame
              /\ IF GopTableEmpty(GopStartIdx(pairs))
                 THEN /\ gpc' = "no_gop"
                      /\ UNCHANGED gop_start_idx
                 ELSE /\ gpc' = "indexed"
                      /\ gop_start_idx' = GopStartIdx(pairs)
    /\ UNCHANGED <<demuxed, demuxFailAt, videoCodec, isVFR>>
    /\ UNCHANGED <<sorted_frame_ids, first_frame_ids, gop_length, lres>>
    /\ UNCHANGED <<corevars, lvars, kvars, pvars, dvars, svars>>

\* std::upper_bound / std::lower_bound on a sorted vector: the position of
\* the first element greater than (not less than) v, Len + 1 for end().
UpperBound(list, v) ==
    IF \E i \in 1..Len(list) : list[i] > v
    THEN CHOOSE i \in 1..Len(list) : list[i] > v /\ \A j \in 1..(i - 1) : ~(list[j] > v)
    ELSE Len(list) + 1
LowerBound(list, v) ==
    IF \E i \in 1..Len(list) : list[i] >= v
    THEN CHOOSE i \in 1..Len(list) : list[i] >= v /\ \A j \in 1..(i - 1) : ~(list[j] >= v)
    ELSE Len(list) + 1

\* Variant: a request equal to the last boundary passes the entry check.
PastLastBoundaryStrict(gop_start_id_list, ids) ==
    ids[Len(ids)] > gop_start_id_list[Len(gop_start_id_list)]
\* if (sorted_frame_ids.back() >= gop_start_id_list.back()) throw
PastLastBoundary(gop_start_id_list, ids) ==
    ids[Len(ids)] >= gop_start_id_list[Len(gop_start_id_list)]

\* Variant: the boundary before-or-at the request is searched with lower_bound.
NextKeyLower(gop_start_id_list, frame_id) == LowerBound(gop_start_id_list, frame_id)
\* auto next_key_it = std::upper_bound(begin, end, *iter)
NextKey(gop_start_id_list, frame_id) == UpperBound(gop_start_id_list, frame_id)

\* Variant: the loop resumes behind the requests equal to the boundary.
NextRequestPastBoundary(ids, boundary) == UpperBound(ids, boundary)
\* iter = std::lower_bound(sorted_frame_ids.begin(), end(), *next_key_it)
NextRequest(ids, boundary) == LowerBound(ids, boundary)

\* The for loop of parse_gop_length from position iter on.  Reading
\* *next_key_it at end() is undefined ("ub"); the entry check keeps the loop
\* from getting there.
RECURSIVE GopLengthLoop(_, _, _, _, _)
GopLengthLoop(gop_start_id_list, ids, iter, lengths, firsts) ==
    IF iter > Len(ids)
    THEN [status |-> "ok", gop_length |-> lengths, first_frame_ids |-> firsts]
    ELSE LET next_key_it == NextKey(gop_start_id_list, ids[iter])
         IN IF next_key_it = 1
            THEN [status |-> "out_of_range", gop_length |-> <<>>, first_frame_ids |-> firsts]
            ELSE IF next_key_it > Len(gop_start_id_list)
            THEN [status |-> "ub", gop_length |-> <<>>, first_frame_ids |-> firsts]
            ELSE GopLengthLoop(gop_start_id_list, ids,
                               NextRequest(ids, gop_start_id_list[next_key_it]),
                               Append(lengths, gop_start_id_list[next_key_it]
                                                 - gop_start_id_list[next_key_it - 1]),
                               Append(firsts, gop_start_id_list[next_key_it - 1]))

\* parse_gop_length on a non-empty request list.
parse_gop_length(gop_start_id_list, ids, firsts) ==
    IF PastLastBoundary(gop_start_id_list, ids)
    THEN [status |-> "out_of_range", gop_length |-> <<>>, first_frame_ids |-> firsts]
    ELSE GopLengthLoop(gop_start_id_list, ids, 1, <<>>, firsts)

\* sorted_frame_ids.back() on an empty vector is undefined: the value read
\* may pass the entry check or not, or the read may fault; the loop then has
\* nothing to visit.
EmptyRequestOutcomes(firsts) ==
    {[status |-> st, gop_length |-> <<>>, first_frame_ids |-> firsts] :
        st \in {"ok", "out_of_range", "ub"}}

\* The sorted request lists handed to parse_gop_length for a stream of n
\* frames: none, one or two ids, from just below 0 to just above n.
RequestLists(n) ==
    {<<>>} \cup {<<a>> : a \in (0 - 1)..(n + 1)}
           \cup {<<a, b>> : a \in (0 - 1)..(n + 1), b \in (0 - 1)..(n + 1)}

SortedRequestLists(n) ==
    {ids \in RequestLists(n) : \A i \in 1..(Len(ids) - 1) : ids[i] <= ids[i + 1]}

\* parse_gop_length, the whole call, on the table just built.
ParseGopLength(ids) ==
    /\ gpc = "indexed"
    /\ sorted_frame_ids' = ids
    /\ \E result \in (IF ids = <<>> THEN EmptyRequestOutcomes(first_frame_ids)
                      ELSE {parse_gop_length(gop_start_idx, ids, first_frame_ids)}) :
          /\ lres' = result.status
          /\ gop_length' = result.gop_length
          /\ first_frame_ids' = result.first_frame_ids
    /\ gpc' = "mapped"
    /\ UNCHANGED <<demuxed, demuxFailAt, videoCodec, isVFR, pts_keyFrame_pair>>
    /\ UNCHANGED <<gop_start_idx, frame2pts, pts2frame>>
    /\ UNCHANGED <<corevars, lvars, kvars, pvars, dvars, svars>>

GopInit ==
    /\ IdleCore
    /\ InitGop
    /\ IdleCache
    /\ IdleClassifier
    /\ IdleParallel
    /\ IdleDecode
    /\ IdleSeek

GopNext ==
    \/ ParseGopStartIdx
    \/ \E ids \in SortedRequestLists(Len(demuxed)) : ParseGopLength(ids)

SpecGop == GopInit /\ [][GopNext]_vars

\* ------------------------------------------- LFUCache
\* (inc/GopDecoderUtils.hpp)  Keys are paths 1, 2, ...; a value is the handle
\* of a path (the path's number) or nullptr (0).
MaxCapacity == 2
MaxFreq == 3
Paths == 1..(MaxCapacity + 1)
NullHandle == 0

\* freqLists[f]: operator[] gives an empty list for a frequency without entry.
FreqList(c, f) == IF f \in DOMAIN c.freqLists THEN c.freqLists[f] ELSE <<>>

\* The map with freqLists[f] set to list.
WithFreqList(c, f, list) ==
    LET dom == IF list = <<>> THEN DOMAIN c.freqLists \ {f} ELSE DOMAIN c.freqLists \cup {f}
    IN [g \in dom |-> IF g = f THEN list ELSE c.freqLists[g]]

Without(list, key) == SelectSeq(list, LAMBDA k : k # key)

\* keyVal.size()
getSize(c) == Cardinality(DOMAIN c.keyVal)

\* The steps get and put share for a cached key (lines 169-183, 200-214):
\* unlink the key from the list of its frequency, count the access, append
\* the key to the list of the new frequency, and move minFreq on by one when
\* its list is empty.
Touch(c, key) ==
    LET freq == c.keyVal[key].freq
        c1 == [c EXCEPT !.freqLists = WithFreqList(c, freq, Without(FreqList(c, freq), key))]
        c2 == [c1 EXCEPT !.keyVal[key].freq = freq + 1,
                         !.freqLists = WithFreqList(c1, freq + 1, Append(FreqList(c1, freq + 1), key))]
    IN IF FreqList(c2, c2.minFreq) = <<>> THEN [c2 EXCEPT !.minFreq = @ + 1] ELSE c2

\* get(key): nullptr for a key that is not cached, else touch and return.
get(c, key) ==
    IF key \notin DOMAIN c.keyVal
    THEN [cache |-> c, ret |-> "nullptr"]
    ELSE [cache |-> Touch(c, key), ret |-> "value"]

\* Variant: the cache counts as full only above its capacity.
CacheFullLate(c) == getSize(c) > c.capacity
\* if (keyVal.size() == capacity)
CacheFull(c) == getSize(c) = c.capacity

\* Lines 223-226: the key at the front of the list of minFreq leaves all
\* three maps; the function returns there.
Evict(c) ==
    LET delKey == Head(FreqList(c, c.minFreq))
    IN [c EXCEPT !.keyVal = [k \in DOMAIN c.keyVal \ {delKey} |-> c.keyVal[k]],
                 !.pos = @ \ {delKey},
                 !.freqLists = WithFreqList(c, c.minFreq, Tail(FreqList(c, c.minFreq)))]

\* Lines 229-236: the new pair with frequency 1, minFreq = 1.
Insert(c, key, value) ==
    [c EXCEPT !.keyVal = [k \in DOMAIN c.keyVal \cup {key} |->
                             IF k = key THEN [val |-> value, freq |-> 1] ELSE c.keyVal[k]],
              !.freqLists = WithFreqList(c, 1, Append(FreqList(c, 1), key)),
              !.pos = @ \cup {key},
              !.minFreq = 1]

\* put(key, value).  freqLists[minFreq].front() on an empty list is
\* undefined ("ub"); the value of `return freqLists[minFreq].pop_front()` is
\* that of a void expression ("void").
put(c, key, value) ==
    IF c.capacity = 0 THEN [cache |-> c, ret |-> "nullptr"]
    ELSE IF key \in DOMAIN c.keyVal
    THEN [cache |-> Touch([c EXCEPT !.keyVal[key].val = value], key), ret |-> "nullptr"]
    ELSE IF CacheFull(c)
    THEN IF FreqList(c, c.minFreq) = <<>>
         THEN [cache |-> c, ret |-> "ub"]
         ELSE [cache |-> Evict(c), ret |-> "void"]
    ELSE [cache |-> Insert(c, key, value), ret |-> "nullptr"]

\* The frequency counters stay within the model's bound.
CanTouch(c, key) == key \in DOMAIN c.keyVal => c.keyVal[key].freq < MaxFreq

Call(op, key, value, ret) ==
    [op |-> op, key |-> key, value |-> value, ret |-> ret,
     cached |-> key \in DOMAIN lfu.keyVal, full |-> getSize(lfu) = lfu.capacity]

CacheGet(key) ==
    /\ CanTouch(lfu, key)
    /\ lfu' = get(lfu, key).cache
    /\ lop' = Call("get", key, NullHandle, get(lfu, key).ret)
    /\ UNCHANGED <<corevars, gvars, kvars, pvars, dvars, svars>>

CachePut(key, value) ==
    /\ CanTouch(lfu, key)
    /\ lfu' = put(lfu, key, value).cache
    /\ lop' = Call("put", key, value, put(lfu, key, value).ret)
    /\ UNCHANGED <<corevars, gvars, kvars, pvars, dvars, svars>>

\* The reader map's predicates, read off the cache.
notFull(c) == getSize(c) < c.capacity
contains(c, key) == key \in DOMAIN c.keyVal

\* find(path, fresh handle or null): the cached handle when there is one;
\* else the fresh handle is inserted, after an eviction when the cache is
\* full.
find(c, key, value) ==
    IF contains(c, key) THEN get(c, key)
    ELSE IF notFull(c) THEN [cache |-> Insert(c, key, value), ret |-> "value"]
    ELSE IF c.capacity = 0 \/ FreqList(c, c.minFreq) = <<>> THEN [cache |-> c, ret |-> "nullptr"]
    ELSE [cache |-> Insert(Evict(c), key, value), ret |-> "value"]

\* run / run_rgb_out, one turn of the "Get Video Readers" loop: a reader is
\* created only when the cache is not full and does not hold the path, then
\* find is called with it or with nullptr.
ReaderLookup(path) ==
    /\ CanTouch(lfu, path)
    /\ LET video_reader == IF notFull(lfu) /\ ~contains(lfu, path) THEN path ELSE NullHandle
       IN /\ lfu' = find(lfu, path, video_reader).cache
          /\ lop' = Call("find", path, video_reader, find(lfu, path, video_reader).ret)
    /\ UNCHANGED <<corevars, gvars, kvars, pvars, dvars, svars>>

CacheInit ==
    /\ IdleCore
    /\ IdleGop
    /\ IdleClassifier
    /\ IdleParallel
    /\ IdleDecode
    /\ IdleSeek
    /\ \E capacity \in 0..MaxCapacity : lfu = NewCache(capacity)
    /\ lop = NoCall

CacheNext ==
    \/ \E key \in Paths : CacheGet(key)
    \/ \E key \in Paths : \E value \in {NullHandle, key} : CachePut(key, value)
    \/ \E path \in Paths : ReaderLookup(path)

SpecCache == CacheInit /\ [][CacheNext]_vars

\* ------------------------------------------- process_frames_in_parallel
\* (src/PyNvSampleReader.cpp 130-164)  One thread per file runs the per-file
\* work; an exception of the work is caught in the thread and kept in eptr.
MaxFiles == 3
WorkOutcomes == {"ok", "std"}

\* std::vector<T> res(filepaths.size()): default-constructed elements.
EmptyResults(n) == [i \in 1..n |-> "empty"]

\* The per-file work of every file, as the caller's lambda will do it.
WorkLists == UNION {[1..n -> WorkOutcomes] : n \in 1..MaxFiles}

\* run / run_rgb_out enters the helper: res, eptr and the empty thread list.
ParallelCall(work) ==
    /\ ppc \in {"idle", "returned", "raised"}
    /\ ppc' = "spawn"
    /\ pwork' = work
    /\ threads' = <<>>
    /\ pres' = EmptyResults(Len(work))
    /\ eptr' = 0
    /\ pret' = <<>>
    /\ UNCHANGED <<corevars, gvars, lvars, kvars, dvars, svars>>

\* threads.emplace_back(...): the next thread starts; after the last one
\* the caller goes on to the join loop.
SpawnThread ==
    /\ ppc = "spawn"
    /\ threads' = Append(threads, "run")
    /\ ppc' = IF Len(threads) + 1 = Len(pwork) THEN "join" ELSE "spawn"
    /\ UNCHANGED <<pwork, pres, eptr, pret>>
    /\ UNCHANGED <<corevars, gvars, lvars, kvars, dvars, svars>>

\* The body of thread i: res[i] is assigned, or the exception is caught and
\* stored in eptr under the mutex.
ThreadBody(i) ==
    /\ i \in 1..Len(threads)
    /\ threads[i] = "run"
    /\ threads' = [threads EXCEPT ![i] = "done"]
    /\ pres' = IF pwork[i] = "ok" THEN [pres EXCEPT ![i] = "frame"] ELSE pres
    /\ eptr' = IF pwork[i] = "ok" THEN eptr ELSE i
    /\ UNCHANGED <<ppc, pwork, pret>>
    /\ UNCHANGED <<corevars, gvars, lvars, kvars, dvars, svars>>

\* Variant: join comes back whether or not the thread has finished.
JoinReturnsEarly(t) == t \in {"run", "done"}
\* thread.join() comes back once the thread has finished.
JoinReturns(t) == t = "done"

NextToJoin == Cardinality({i \in 1..Len(threads) : threads[i] \in {"joined", "left"}}) + 1

\* for (auto& thread : threads) thread.join(), one turn; after the last
\* turn the caller goes on to the check of eptr.
JoinThread ==
    /\ ppc = "join"
    /\ JoinReturns(threads[NextToJoin])
    /\ threads' = [threads EXCEPT ![NextToJoin] = IF @ = "done" THEN "joined" ELSE "left"]
    /\ ppc' = IF NextToJoin = Len(threads) THEN "check" ELSE "join"
    /\ UNCHANGED <<pwork, pres, eptr, pret>>
    /\ UNCHANGED <<corevars, gvars, lvars, kvars, dvars, svars>>

\* if (eptr) rethrow, else return res.
CheckAndReturn ==
    /\ ppc = "check"
    /\ ppc' = IF eptr # 0 THEN "raised" ELSE "returned"
    /\ pret' = IF eptr # 0 THEN <<>> ELSE pres
    /\ UNCHANGED <<pwork, threads, pres, eptr>>
    /\ UNCHANGED <<corevars, gvars, lvars, kvars, dvars, svars>>

ParallelInit ==
    /\ IdleCore
    /\ IdleGop
    /\ IdleCache
    /\ IdleClassifier
    /\ IdleParallel
    /\ IdleDecode
    /\ IdleSeek

ParallelNext ==
    \/ \E work \in WorkLists : ParallelCall(work)
    \/ SpawnThread
    \/ \E i \in 1..MaxFiles : ThreadBody(i)
    \/ JoinThread
    \/ CheckAndReturn

SpecParallel == ParallelInit /\ [][ParallelNext]_vars

\* ------------------------------------------- run / run_rgb_out
\* (src/PyNvSampleReader.cpp 166-250)  The two functions differ in the
\* per-file work only.  A call is the two size checks, the reader lookup in
\* the cache of every file slot used, and the per-file work in parallel.
NumOfSet == 1
DecodePaths == {1, 2}
DecodeFunctions == {"run", "run_rgb_out"}

\* The constructor: one reader cache of capacity num_of_set per file slot.
NewVideoReaderMap == [i \in 1..NumOfFile |-> NewCache(NumOfSet)]

\* The file lists of the callers: none, one per slot or fewer, one too many;
\* the frame-id list is as long as the file list or one longer.
FilePathLists == UNION {[1..n -> DecodePaths] : n \in 0..(NumOfFile + 1)}
FrameIdCounts(filepaths) == {Len(filepaths), Len(filepaths) + 1}

\* filepaths.size() > num_of_file
TooManyFiles(n) == n > NumOfFile

\* The two checks at the head of both functions.
InvalidArgument(filepaths, frame_ids) ==
    IF Len(filepaths) # frame_ids THEN TRUE ELSE TooManyFiles(Len(filepaths))

\* "Get Video Readers", turn i of the loop on the cache of slot i.
SlotLookup(reader_map, path) ==
    find(reader_map, path, IF notFull(reader_map) /\ ~contains(reader_map, path) THEN path ELSE NullHandle).cache

\* Slots beyond the end of VideoReaderMap are not looked up in the model.
LookedUp(filepaths) == {i \in 1..Len(filepaths) : i <= Len(VideoReaderMap)}

\* process_frames_in_parallel as a whole: the results, or the exception of
\* a per-file work that failed.
ParallelOutcome(work) == IF \E i \in 1..Len(work) : work[i] # "ok" THEN "std" ELSE "frames"

\* What the per-file work of n files does: all of it succeeds, or the work
\* of one file fails.
WorkChoices(n) ==
    {[i \in 1..n |-> "ok"]} \cup {[i \in 1..n |-> IF i = k THEN "std" ELSE "ok"] : k \in 1..n}

DecodeCall(fn, filepaths, frame_ids, work) ==
    /\ VideoReaderMap # <<>>
    /\ Len(work) = Len(filepaths)
    /\ dcall' = [fn |-> fn, filepaths |-> Len(filepaths), frame_ids |-> frame_ids]
    /\ IF InvalidArgument(filepaths, frame_ids)
       THEN /\ dres' = "invalid_argument"
            /\ dlookups' = <<>>
            /\ UNCHANGED VideoReaderMap
       ELSE /\ \A i \in LookedUp(filepaths) : CanTouch(VideoReaderMap[i], filepaths[i])
            /\ VideoReaderMap' = [i \in 1..Len(VideoReaderMap) |->
                                     IF i \in LookedUp(filepaths)
                                     THEN SlotLookup(VideoReaderMap[i], filepaths[i])
                                     ELSE VideoReaderMap[i]]
            /\ dlookups' = [i \in 1..Len(filepaths) |-> i]
            /\ dres' = ParallelOutcome(work)
    /\ UNCHANGED <<corevars, gvars, lvars, kvars, pvars, svars>>

DecodeInit ==
    /\ IdleCore
    /\ IdleGop
    /\ IdleCache
    /\ IdleClassifier
    /\ IdleParallel
    /\ IdleSeek
    /\ VideoReaderMap = NewVideoReaderMap
    /\ dcall = [fn |-> "none", filepaths |-> 0, frame_ids |-> 0]
    /\ dlookups = <<>>
    /\ dres = "none"

DecodeNext ==
    \E fn \in DecodeFunctions, filepaths \in FilePathLists :
        \E frame_ids \in FrameIdCounts(filepaths) :
        \E work \in WorkChoices(Len(filepaths)) :
            DecodeCall(fn, filepaths, frame_ids, work)

SpecDecode == DecodeInit /\ [][DecodeNext]_vars

\* ------------------------------------------- PyNvGopDemuxer seeks
\* (src/PyNvGopDemuxer.cpp 139-318)  Seek is the seek of the mapped mode,
\* SeekGopFirstFrameNoMap the one of the unmapped mode.  Each turn of their
\* loops is one container seek followed by the check of what came back.
MaxSeekFrames == 3
FrameDuration == 40

\* A packet that begins with an access unit delimiter and carries no key
\* flag (H.264 byte layout).
AudPacket == [pVideo |-> Packet(<<0, 0, 0, 1, 9>>), flags |-> 0]
PacketKinds == {KeyPacket, PlainPacket, AudPacket}

\* The container's conversions on a constant-frame-rate file.
TsFromFrameNumber(frame) == frame * FrameDuration
FrameNumFromTs(ts) == ts \div FrameDuration

\* Constant-frame-rate files: every arrangement of the packet kinds over up
\* to MaxSeekFrames frames.  Variable-frame-rate files: three frames, with
\* and without a timestamp shared by two frames.
CfrStreams ==
    UNION {{[i \in 1..n |-> Frame(TsFromFrameNumber(i - 1), kinds[i])] : kinds \in [1..n -> PacketKinds]} :
              n \in 1..MaxSeekFrames}
VfrStreams ==
    {<<Frame(10, KeyPacket), Frame(20, PlainPacket), Frame(30, PlainPacket)>>,
     <<Frame(10, KeyPacket), Frame(20, PlainPacket), Frame(20, AudPacket)>>}

\* The file is opened; for a variable-frame-rate file the maps built by
\* parse_gop_start_idx are set on the demuxer.
InitSeek ==
    /\ sIsVFR \in BOOLEAN
    /\ sstream \in (IF sIsVFR THEN VfrStreams ELSE CfrStreams)
    /\ scodec \in {"H264", "VP9"}
    /\ sframe2pts = (IF sIsVFR THEN Frame2Pts(sstream) ELSE EmptyMap)
    /\ spts2frame = (IF sIsVFR THEN Pts2Frame(sstream) ELSE EmptyMap)
    /\ IdleSeekCall

\* demuxer->SeekWithTS(ctx, ...): it fails, or it succeeds with no packet,
\* or it succeeds with a packet of the file, which may lie at, before or
\* after the timestamp asked for.
SeekWithTS(ts) ==
    {NoPacket, [ret |-> TRUE, null |-> TRUE, frame |-> 0]}
        \cup {[ret |-> TRUE, null |-> FALSE, frame |-> j] : j \in 0..(Len(sstream) - 1)}

\* timestamp_out of a seek that succeeded.
TimestampOf(out, ts) == IF out.null THEN ts ELSE sstream[out.frame + 1].pts

\* Variant: a key that is absent is answered with timestamp 0.
MapAtDefault(map, key) == IF key \in DOMAIN map THEN [ok |-> TRUE, v |-> map[key]] ELSE [ok |-> TRUE, v |-> 0]
\* map.at(key): the entry, or std::out_of_range.
MapAt(map, key) == IF key \in DOMAIN map THEN [ok |-> TRUE, v |-> map[key]] ELSE [ok |-> FALSE, v |-> 0]

\* A call can start when none is under way.
SeekReady == spc \in {"idle", "found", "failed", "domain_error"}

\* The caller's output variable holds -1 when a call starts; the locals of
\* the function hold nothing yet.
FreshCall(fn, target) ==
    /\ sfn' = fn
    /\ starget' = target
    /\ frame_id_to_seek' = target
    /\ frame_id_out' = -1
    /\ timestamp_out' = 0
    /\ sout' = NoPacket
    /\ sseeked' = FALSE

\* Variant: the frame-rate mode is not looked at.
RejectsVfrNever(vfr) == FALSE
\* if (demuxer->IsVFRV2()) throw std::domain_error
RejectsVfr(vfr) == vfr

\* SeekGopFirstFrameNoMap, lines 250-259.
NoMapCall(target) ==
    /\ SeekReady
    /\ FreshCall("SeekGopFirstFrameNoMap", target)
    /\ spc' = IF RejectsVfr(sIsVFR) THEN "domain_error" ELSE "seeking"
    /\ current_frame_to_seek' = target
    /\ found_key_frame' = FALSE
    /\ timestamp_keyframe' = 0
    /\ UNCHANGED <<corevars, gvars, lvars, kvars, pvars, dvars, sfile>>

\* Variant: the search point counts as negative only below -1.
SearchPointNegativeLate(point) == point < -1
\* current_frame_to_seek < 0
SearchPointNegative(point) == point < 0

\* Lines 261-277 and 317: the loop condition, then the container seek; the
\* function returns found_key_frame when the loop is left.
NoMapSeeking ==
    /\ sfn = "SeekGopFirstFrameNoMap"
    /\ spc = "seeking"
    /\ IF found_key_frame
       THEN /\ spc' = "found"
            /\ UNCHANGED <<timestamp_out, sout, sseeked>>
       ELSE IF SearchPointNegative(current_frame_to_seek)
       THEN /\ spc' = "failed"
            /\ UNCHANGED <<timestamp_out, sout, sseeked>>
       ELSE \E out \in SeekWithTS(TsFromFrameNumber(current_frame_to_seek)) :
               /\ sout' = out
               /\ sseeked' = TRUE
               /\ IF out.ret
                  THEN /\ spc' = "verifying"
                       /\ timestamp_out' = TimestampOf(out, TsFromFrameNumber(current_frame_to_seek))
                  ELSE /\ spc' = "failed"
                       /\ UNCHANGED timestamp_out
    /\ UNCHANGED <<sfn, starget, frame_id_to_seek, current_frame_to_seek, found_key_frame,
                   frame_id_out, timestamp_keyframe>>
    /\ UNCHANGED <<corevars, gvars, lvars, kvars, pvars, dvars, sfile>>

\* Variant: a GOP start is accepted wherever it lies.
PastTargetNever(frame, target) == FALSE
\* frame_id_out > frame_id_to_seek
PastTarget(frame, target) == frame > target

\* Lines 279-304: the frame id of the packet, the check for no packet, the
\* classification without the flag, and the move of the search point.
NoMapVerifying ==
    /\ sfn = "SeekGopFirstFrameNoMap"
    /\ spc = "verifying"
    /\ frame_id_out' = FrameNumFromTs(timestamp_out)
    /\ IF sout.null
       THEN /\ spc' = "failed"
            /\ UNCHANGED <<current_frame_to_seek, found_key_frame>>
       ELSE LET class == hasKeyFrameNalType(scodec, sstream[sout.frame + 1].pVideo)
            IN IF class = "domain_error"
               THEN /\ spc' = "domain_error"
                    /\ UNCHANGED <<current_frame_to_seek, found_key_frame>>
               ELSE IF class = "true"
               THEN /\ spc' = "seeking"
                    /\ found_key_frame' = ~PastTarget(frame_id_out', frame_id_to_seek)
                    /\ current_frame_to_seek' =
                          IF PastTarget(frame_id_out', frame_id_to_seek)
                          THEN current_frame_to_seek - 1
                          ELSE current_frame_to_seek
               ELSE /\ current_frame_to_seek' = frame_id_out' - 1
                    /\ spc' = IF SearchPointNegative(current_frame_to_seek') THEN "failed" ELSE "seeking"
                    /\ UNCHANGED found_key_frame
    /\ UNCHANGED <<sfn, starget, frame_id_to_seek, timestamp_keyframe, timestamp_out, sout, sseeked>>
    /\ UNCHANGED <<corevars, gvars, lvars, kvars, pvars, dvars, sfile>>

\* Seek, lines 139-160: the timestamp of the frame asked for.
SeekCall(target) ==
    /\ SeekReady
    /\ FreshCall("Seek", target)
    /\ current_frame_to_seek' = 0
    /\ found_key_frame' = FALSE
    /\ IF sIsVFR
       THEN IF MapAt(sframe2pts, target).ok
            THEN /\ timestamp_keyframe' = MapAt(sframe2pts, target).v
                 /\ spc' = "seeking"
            ELSE /\ spc' = "failed"
                 /\ timestamp_keyframe' = 0
       ELSE /\ timestamp_keyframe' = TsFromFrameNumber(target)
            /\ spc' = "seeking"
    /\ UNCHANGED <<corevars, gvars, lvars, kvars, pvars, dvars, sfile>>

\* Variant: a timestamp at or after the one looked for ends the loop.
ExactMatchOrLater(ts, wanted) == ts >= wanted
\* condition = (timestamp_out == timestamp_keyframe)
ExactMatch(ts, wanted) == ts = wanted

\* Lines 223-242: the frame id of the timestamp the loop ended on.
FrameOfTimestamp(ts) ==
    IF sIsVFR THEN MapAt(spts2frame, ts) ELSE [ok |-> TRUE, v |-> FrameNumFromTs(ts)]

\* Seek, one turn of the loop of lines 162-200 and, when the loop is left,
\* lines 223-246.  The frame id to seek stays within two of the file's end.
SeekIteration ==
    /\ sfn = "Seek"
    /\ spc = "seeking"
    /\ frame_id_to_seek <= Len(sstream) + 1
    /\ IF sIsVFR /\ ~MapAt(sframe2pts, frame_id_to_seek).ok
       THEN /\ spc' = "failed"
            /\ UNCHANGED <<frame_id_to_seek, frame_id_out, timestamp_out, sout, sseeked>>
       ELSE LET timestamp_to_seek == IF sIsVFR THEN MapAt(sframe2pts, frame_id_to_seek).v
                                     ELSE TsFromFrameNumber(frame_id_to_seek)
            IN \E out \in SeekWithTS(timestamp_to_seek) :
                  /\ sout' = out
                  /\ sseeked' = TRUE
                  /\ timestamp_out' = IF out.ret THEN TimestampOf(out, timestamp_to_seek) ELSE timestamp_out
                  /\ frame_id_to_seek' = frame_id_to_seek + 1
                  /\ IF ~out.ret
                     THEN /\ spc' = "failed"
                          /\ UNCHANGED frame_id_out
                     ELSE IF ~ExactMatch(timestamp_out', timestamp_keyframe)
                     THEN /\ spc' = "seeking"
                          /\ UNCHANGED frame_id_out
                     ELSE IF FrameOfTimestamp(timestamp_out').ok
                     THEN /\ spc' = "found"
                          /\ frame_id_out' = FrameOfTimestamp(timestamp_out').v
                     ELSE /\ spc' = "failed"
                          /\ UNCHANGED frame_id_out
    /\ UNCHANGED <<sfn, starget, current_frame_to_seek, found_key_frame, timestamp_keyframe>>
    /\ UNCHANGED <<corevars, gvars, lvars, kvars, pvars, dvars, sfile>>

SeekInit ==
    /\ IdleCore
    /\ IdleGop
    /\ IdleCache
    /\ IdleClassifier
    /\ IdleParallel
    /\ IdleDecode
    /\ InitSeek

SeekNext ==
    \/ \E target \in -1..Len(sstream) : NoMapCall(target)
    \/ NoMapSeeking
    \/ NoMapVerifying
    \/ \E target \in -1..Len(sstream) : SeekCall(target)
    \/ SeekIteration

SpecSeek == SeekInit /\ [][SeekNext]_vars

\* ------------------------------------------- PyNvGopDecoder teardown
\* (src/PyNvGopDecoder_constructors.cpp)  A PyNvGopDecoder owns vectors of
\* runners (demux, decode, merge), filled in place by emplace_back after a
\* reserve; one of them stands for all.  Its methods start tasks on them and
\* join them; force_join_all() force-joins every runner.

\* ~PyNvGopDecoder() reaches its "clean up thread runners" loops: runner.join().
GopDecoderDtorCall(o) ==
    /\ cpc = "idle"
    /\ alive[o] = "alive"
    /\ cpc' = "gop_dtor"
    /\ cobj' = o
    /\ UNCHANGED <<cres, carg, rvars, tvars, hvars>>
    /\ UNCHANGED <<avars, extvars>>

\* runner.join() inside the destructor leaves its wait.  The call is not
\* inside a try block: a failure it raises leaves the destructor, which ends
\* the process (std::terminate); otherwise the members are destroyed and
\* ~ThreadRunner() sets the stop flag.
GopDecoderDtorJoined ==
    /\ cpc = "gop_dtor"
    /\ JoinPredicate(cobj)
    /\ cres' = JoinOutcome(cobj)
    /\ hasException' = [hasException EXCEPT ![cobj] = JoinResetFlag(@)]
    /\ exceptionPtr' = [exceptionPtr EXCEPT ![cobj] = IF hasException[cobj] THEN "null" ELSE @]
    /\ failedSince' = 0
    /\ lastClear' = "join"
    /\ raises' = IF JoinRaised(JoinOutcome(cobj)) THEN raises + 1 ELSE raises
    /\ consumed' = IF JoinRaised(JoinOutcome(cobj)) THEN failedSince ELSE consumed
    /\ IF JoinRaised(JoinOutcome(cobj))
       THEN /\ cpc' = "terminated"
            /\ UNCHANGED stopFlag
       ELSE /\ cpc' = "dtor"
            /\ stopFlag' = [stopFlag EXCEPT ![cobj] = TRUE]
    /\ UNCHANGED <<tasks, busy, worker, alive, tvars, cobj, carg>>
    /\ UNCHANGED <<nextId, started, done, discarded, dropped, queuedAtDtor>>
    /\ UNCHANGED <<avars, extvars>>

TeardownNext ==
    \/ \E t \in TaskOf(nextId) : Start("r1", t)
    \/ JoinCall("r1")
    \/ JoinReturn
    \/ ForceJoinCall("r1")
    \/ ForceJoinReturn
    \/ GopDecoderDtorCall("r1")
    \/ GopDecoderDtorJoined
    \/ DtorReturn
    \/ WorkerTake("r1")
    \/ WorkerRun("r1")
    \/ WorkerFinish("r1")

SpecTeardown == RunnerInit /\ [][TeardownNext]_vars

\* ------------------------------------------------ claims on one runner
Submitted == 1..(nextId - 1)
JoinReturnStep == cpc = "join" /\ cpc' = "idle"
ForceJoinReturnStep == cpc = "force" /\ cpc' = "idle"

\* C1: tasks of one runner run one at a time in submission order: when a task
\* has begun, every task submitted before it has finished, unless force_join
\* discarded it.
C1_SubmissionOrder ==
    \A b \in started : \A a \in 1..(b - 1) : a \in done \cup discarded

C1_Witness == {1, 2} \subseteq done /\ 3 \in started /\ discarded = {}

\* C2: join() returns or raises only when the queue is empty and no task is
\* executing, and then every task submitted so far (and not discarded by an
\* earlier force_join) has run to completion.
C2_JoinWaitsForAllTasks ==
    [][JoinReturnStep =>
          /\ tasks[cobj] = <<>>
          /\ ~busy[cobj]
          /\ tpc[cobj] \notin {"run", "finish"}
          /\ Submitted \subseteq done \cup discarded]_vars

C2_Witness == cres = "join_ok" /\ done = {1, 2} /\ discarded = {} /\ cpc = "idle"

\* C3: a task failure is raised by the next join() and by no join() after it:
\* a join raises exactly when a task failed since the failure state was last
\* consumed; and a task submitted after the raising join is still executed.
C3_RaisedExactlyOnce ==
    [][JoinReturnStep => (JoinRaised(cres') <=> failedSince > 0)]_vars

C3_StillUsable ==
    \A id \in 1..MaxTasks :
        (JoinRaised(cres) /\ id \in Ids(tasks["r1"])) ~> (id \in done \cup discarded)

C3_FailurePropagatedOnce == C3_RaisedExactlyOnce /\ C3_StillUsable

C3_Witness ==
    /\ raises = 1
    /\ cres = "join_ok"
    /\ lastClear = "join"
    /\ failedSince = 0
    /\ done = {1, 2}

\* C4: force_join() discards every task queued when it is called (none of them
\* is ever started), lets the executing task run to completion, and returns
\* only when the queue is empty and nothing is executing.
C4_DiscardedNeverRun == [](discarded \cap started = {})

C4_ReturnsIdle ==
    [][ForceJoinReturnStep =>
          /\ tasks[cobj] = <<>>
          /\ ~busy[cobj]
          /\ tpc[cobj] \notin {"run", "finish"}
          /\ started \subseteq done]_vars

C4_ForceJoinDiscardsQueued == C4_DiscardedNeverRun /\ C4_ReturnsIdle

C4_Witness == cres = "force_ok" /\ discarded = {2, 3} /\ done = {1} /\ cpc = "idle"

\* C5: force_join() does not raise and returns with the failure state clear,
\* also when the task it waited for failed; a join() after it, with no task
\* failing in between, returns without raising.
C5_ForceJoinClears ==
    [][ForceJoinReturnStep =>
          /\ cres' = "force_ok"
          /\ ~hasException'[cobj]
          /\ exceptionPtr'[cobj] = "null"]_vars

C5_JoinAfterForceJoin ==
    [][(JoinReturnStep /\ lastClear = "force" /\ failedSince = 0) => cres' = "join_ok"]_vars

C5_ForceJoinSilent == C5_ForceJoinClears /\ C5_JoinAfterForceJoin

C5_Witness == dropped >= 1 /\ cres = "join_ok" /\ raises = 0

\* ------------------------------------------------ claims on the pipeline
RetrievePopStep == cpc = "retrieve_pop" /\ cpc' = "idle"

SameFingerprint(result, req) ==
    /\ result.file_path_list = req.files
    /\ result.frame_id_list = req.frames
    /\ result.as_bgr = req.bgr

\* C7: a submit made before the previous result was retrieved discards that
\* result: a retrieve never returns the frames of a request older than the
\* latest submitted one.
C7_StaleResultNeverReturned == cres = "frames" => cgot.rid = nsub

\* C8: a retrieve returns the buffered frames only when its file list, frame
\* id list and colour flag equal the result's, element by element; for a
\* buffered result that holds frames, any difference gives the mismatch error.
C8_FingerprintValidated ==
    [][RetrievePopStep =>
          LET result == Head(rq)
          IN /\ cres' = "frames" => SameFingerprint(result, carg)
             /\ (result.exception = "null" /\ ~SameFingerprint(result, carg))
                    => cres' = "mismatch"
             /\ (result.exception = "null" /\ SameFingerprint(result, carg))
                    => cres' = "frames"]_vars

C8_Witness ==
    /\ cres = "mismatch"
    /\ cpc = "idle"
    /\ cgot.file_path_list = <<"A", "B">> /\ carg.files = <<"A", "B">>
    /\ cgot.frame_id_list = <<0, 10>> /\ carg.frames = <<0, 11>>
    /\ cgot.as_bgr = carg.bgr

\* C9: a retrieve entered with no task pending and the result queue empty
\* fails at once with the "no pending decode task" error: it does not go on
\* to wait on the queue.
C9_NoTaskFailsAtOnce ==
    [][((\E req \in Requests : RetrieveCall(req)) /\ ~pending /\ rq = <<>>)
          => (cres' = "no_task" /\ cpc' = "idle")]_vars

C9_Witness == cres = "no_task" /\ cpc = "idle" /\ nsub = 1 /\ cgot.rid = 1

\* C10: a failure of the decode stays inside the result: the runner's failure
\* state is never set, a task whose decode failed ends only after it has
\* pushed its result and cleared the pending flag, and the retrieve that pops
\* that result re-raises the failure and returns no frames.
C10_RunnerStateUntouched == [](~hasException["r1"] /\ exceptionPtr["r1"] = "null")

C10_FailedTaskPublishes ==
    [][(tpc["r1"] # "finish" /\ tpc'["r1"] = "finish" /\ ttask["r1"].id \in failedRids')
          => (ttask["r1"].id \in published /\ ~pending')]_vars

C10_FailureReraised ==
    [][(RetrievePopStep /\ Head(rq).rid \in failedRids)
          => (cres' = "task_failure" /\ Head(rq).exception # "null")]_vars

C10_FailureCapturedInResult ==
    C10_RunnerStateUntouched /\ C10_FailedTaskPublishes /\ C10_FailureReraised

C10_Witness ==
    /\ cres = "task_failure"
    /\ cgot.rid \in failedRids
    /\ cgot.exception = "unknown"
    /\ ~pending
    /\ tpc["r1"] = "wait"

\* ------------------------------------------------ claims on the pipeline
\* with the synchronous entry point

\* The async decode tasks queued on the decode worker or executing on it (a
\* task executes from the pop to the end of its function, where it clears
\* the pending flag).
AsyncTasksInFlight ==
    Len(tasks["r1"]) + (IF tpc["r1"] \in {"run", "push", "clear"} THEN 1 ELSE 0)

\* C11: in every reachable state of the pipeline, under any sequence of
\* submit, retrieve and synchronous decode calls, the result queue holds at
\* most one result and at most one async decode task is queued or executing.
C11_SingleSlotSingleTask ==
    /\ Len(rq) <= 1
    /\ AsyncTasksInFlight <= 1

\* A result is buffered while the next task, started by a submit that found
\* nothing pending, is executing, and a synchronous decode has been called.
C11_Witness ==
    /\ Len(rq) = 1
    /\ tpc["r1"] = "push"
    /\ AsyncTasksInFlight = 1
    /\ nsub = 2
    /\ cpc = "sync_join"

SubmitJoinedStep == cpc = "submit_join" /\ cpc' = "idle"

\* C12: a submit that finds a task pending does not enqueue anything while it
\* waits; when it goes on, the task it waited for has run to completion (it
\* was executed, its result was pushed) and nothing else is queued or
\* executing; the new request is enqueued in that same step; and no retrieve
\* made afterwards is handed the result of the task that was waited for.
C12_BlocksWhileExecuting ==
    [][(cpc' = "submit_join")
          => (nsub' = nsub /\ Len(tasks'["r1"]) <= Len(tasks["r1"]))]_vars

C12_StaleTaskCompleted ==
    [][SubmitJoinedStep =>
          /\ nsub \in started /\ nsub \in done /\ nsub \in published
          /\ AsyncTasksInFlight = 0
          /\ nsub' = nsub + 1
          /\ Ids(tasks'["r1"]) = {nsub'}]_vars

C12_StaleResultNotDelivered ==
    [][RetrievePopStep => Head(rq).rid \notin superseded]_vars

C12_SubmitWaitsAndDiscards ==
    C12_BlocksWhileExecuting /\ C12_StaleTaskCompleted /\ C12_StaleResultNotDelivered

\* The second submit waited for the first task; the retrieve after it got the
\* second task's frames.
C12_Witness ==
    /\ superseded = {1}
    /\ published = {1, 2}
    /\ cres = "frames"
    /\ cgot.rid = 2
    /\ cpc = "idle"

\* ------------------------------------------------ claims on the GOP index
StrictlyIncreasing(table) == \A i \in 1..(Len(table) - 1) : table[i] < table[i + 1]

\* The GOPs of a table that hold frame id f: the half-open intervals between
\* two consecutive boundaries.
GopsHolding(table, f) == {i \in 1..(Len(table) - 1) : table[i] <= f /\ f < table[i + 1]}

FrameCount == Len(demuxed)

\* C13 as claimed: the table is strictly increasing, ends with the frame
\* count, and every frame id in [0, N) lies in exactly one GOP.
C13_GopsPartitionAllFrames ==
    gpc = "indexed" =>
        /\ StrictlyIncreasing(gop_start_idx)
        /\ gop_start_idx[Len(gop_start_idx)] = FrameCount
        /\ \A f \in 0..(FrameCount - 1) : Cardinality(GopsHolding(gop_start_idx, f)) = 1

\* C13 as amended: the table is strictly increasing and ends with the frame
\* count; every frame id from the first boundary up to N lies in exactly one
\* GOP, and a frame id below the first boundary (a frame sorted before the
\* first key frame) lies in none.
C13_GopsPartitionFromFirstKey ==
    gpc = "indexed" =>
        /\ StrictlyIncreasing(gop_start_idx)
        /\ gop_start_idx[Len(gop_start_idx)] = FrameCount
        /\ \A f \in 0..(FrameCount - 1) :
              Cardinality(GopsHolding(gop_start_idx, f)) =
                  (IF f >= gop_start_idx[1] THEN 1 ELSE 0)

\* Three packets demuxed out of timestamp order, the one sorted first is not
\* a key frame: boundaries 1 and 3.
C13_Witness ==
    /\ gpc = "indexed"
    /\ gop_start_idx = <<1, 3>>
    /\ demuxed[1].pts > demuxed[2].pts

\* C14: parse_gop_start_idx returns a table only when the stream has a key
\* frame; with none (also with no frame at all) it fails with the "at least
\* one GOP" error.
C14_NoKeyFrameFails ==
    /\ gpc = "indexed" => \E i \in 1..Len(pts_keyFrame_pair) : pts_keyFrame_pair[i].key
    /\ (gpc \in {"indexed", "no_gop"} /\ \A i \in 1..Len(pts_keyFrame_pair) : ~pts_keyFrame_pair[i].key)
          => gpc = "no_gop"

ParseGopLengthStep == gpc = "indexed" /\ gpc' = "mapped"

IsBoundary(table, v) == \E i \in 1..Len(table) : table[i] = v

\* The request lies inside the table: at or after the first boundary and
\* before the last.
InsideTable(table, f) == table[1] <= f /\ f < table[Len(table)]

\* C15: on a non-empty sorted request list whose ids all lie inside the
\* table the call succeeds, and every requested id f is covered by an entry
\* (first, length) appended by the call: first is the greatest boundary <= f
\* and first + length the smallest boundary > f.  Boundaries [0, 4, 8, 10]
\* with request 6 give first 4 and length 4.
C15_Covered ==
    [][(ParseGopLengthStep /\ sorted_frame_ids' # <<>>) =>
          LET ids == sorted_frame_ids'
              B == gop_start_idx
              old == Len(first_frame_ids)
          IN /\ (\A n \in 1..Len(ids) : InsideTable(B, ids[n])) => lres' = "ok"
             /\ lres' = "ok" =>
                  /\ Len(first_frame_ids') = old + Len(gop_length')
                  /\ \A n \in 1..Len(ids) :
                        \E k \in 1..Len(gop_length') :
                            LET first == first_frame_ids'[old + k]
                                length == gop_length'[k]
                            IN /\ IsBoundary(B, first)
                               /\ IsBoundary(B, first + length)
                               /\ first <= ids[n] /\ ids[n] < first + length
                               /\ \A i \in 1..Len(B) :
                                     ~(first < B[i] /\ B[i] < first + length)]_vars

C15_Instance ==
    [][(ParseGopLengthStep /\ gop_start_idx = <<0, 4, 8, 10>> /\ sorted_frame_ids' = <<6>>)
          => (lres' = "ok" /\ gop_length' = <<4>>
              /\ first_frame_ids' = Append(first_frame_ids, 4))]_vars

C15_EnclosingGop == C15_Covered /\ C15_Instance

C15_Witness ==
    /\ gpc = "mapped"
    /\ gop_start_idx = <<0, 4, 8, 10>>
    /\ sorted_frame_ids = <<6>>
    /\ lres = "ok"
    /\ gop_length = <<4>>
    /\ first_frame_ids = <<4>>

\* C16: when a requested id is not below the last boundary, or lies before
\* the first one, the call fails with the out-of-range error, returns no
\* entry and leaves the caller's first_frame_ids as it was.
C16_OutOfRangeFails ==
    [][(ParseGopLengthStep /\ sorted_frame_ids' # <<>>) =>
          LET ids == sorted_frame_ids'
              B == gop_start_idx
          IN (\E n \in 1..Len(ids) : ~InsideTable(B, ids[n])) =>
                /\ lres' = "out_of_range"
                /\ gop_length' = <<>>
                /\ first_frame_ids' = first_frame_ids]_vars

\* A request before the first boundary, followed by one inside the table;
\* the caller's vector held an entry before the call.
C16_Witness ==
    /\ gpc = "mapped"
    /\ gop_start_idx = <<1, 3>>
    /\ sorted_frame_ids = <<0, 1>>
    /\ lres = "out_of_range"
    /\ first_frame_ids = <<0>>

\* C17: a cache of capacity K never holds more than K entries, whatever
\* lookups and insertions were made over K+1 paths, and its "not full"
\* predicate is false exactly when the size is K.
C17_CacheBound ==
    /\ getSize(lfu) <= lfu.capacity
    /\ ~notFull(lfu) <=> (getSize(lfu) = lfu.capacity)

\* A path that was not cached was looked up in a full cache, and the cache
\* is full afterwards.
C17_Witness ==
    /\ lfu.capacity > 0
    /\ lop.op = "find"
    /\ lop.full
    /\ ~lop.cached
    /\ getSize(lfu) = lfu.capacity
    /\ ~notFull(lfu)

\* C18: after put of a key that was not cached into a full cache, the new
\* key is present and the size is still K.
C18_PutEvictsAndInserts ==
    (lop.op = "put" /\ lop.full /\ ~lop.cached /\ lfu.capacity > 0) =>
        /\ lop.key \in DOMAIN lfu.keyVal
        /\ getSize(lfu) = lfu.capacity

\* C19 as stated: for an unsupported codec family both predicates end in
\* the hard error, whatever the packet and the flags.
C19_UnsupportedAlwaysFails ==
    (kcall.fn # "none" /\ kcall.codec_id \notin SupportedCodecs) => kres = "domain_error"

\* C19, amended: for an unsupported codec family both predicates end in the
\* hard error for every packet that is not null and every flag value, and
\* never answer false for such a packet; for a null packet both answer
\* false, whatever the codec family.
C19_UnsupportedFailsUnlessNull ==
    /\ (kcall.fn # "none" /\ kcall.codec_id \notin SupportedCodecs /\ ~kcall.pVideo.null)
          => kres = "domain_error"
    /\ (kcall.fn # "none" /\ kcall.pVideo.null) => kres = "false"
    /\ kres = "domain_error" => kcall.codec_id \notin SupportedCodecs

\* iskeyFrame was called for an unsupported family with a flagged parameter
\* set packet and ended in the hard error.
C19_Witness ==
    /\ kcall.fn = "iskeyFrame"
    /\ kcall.codec_id = "VP9"
    /\ kcall.pVideo = Packet(<<0, 0, 1, 103, 66>>)
    /\ kcall.demux_flags = 1
    /\ kres = "domain_error"

ThreadsFinished == \A i \in 1..Len(threads) : threads[i] = "joined"
WorkFailed == \E i \in 1..Len(pwork) : pwork[i] # "ok"

ConfigurationError(call) ==
    IF call.filepaths = 0 THEN TRUE
    ELSE IF call.filepaths # call.frame_ids THEN TRUE
    ELSE call.filepaths > NumOfFile

\* C21: a call of run / run_rgb_out with an empty file list, with lists of
\* different lengths or with more files than file slots fails, and no
\* reader-cache slot was looked up by it.
C21_ConfigurationErrorsFail ==
    (dcall.fn # "none" /\ ConfigurationError(dcall)) =>
        (dres = "invalid_argument" /\ dlookups = <<>>)

Indexed == gpc \in {"indexed", "mapped"}
FrameIds == 0..(Len(pts_keyFrame_pair) - 1)

\* C29 as stated: after parse_gop_start_idx on a variable-frame-rate input
\* frame2pts has an entry for every frame id and pts2frame[frame2pts[i]] = i
\* for every frame id i; on a constant-frame-rate input both maps are as
\* they were.
C29_MapsMutuallyInverse ==
    Indexed =>
        IF isVFR
        THEN /\ DOMAIN frame2pts = FrameIds
             /\ \A i \in FrameIds :
                   frame2pts[i] \in DOMAIN pts2frame /\ pts2frame[frame2pts[i]] = i
        ELSE frame2pts = EmptyMap /\ pts2frame = EmptyMap

\* C29, amended: frame2pts has an entry for every frame id, pts2frame one
\* for every timestamp of the stream, frame2pts[pts2frame[t]] = t for every
\* such timestamp, and pts2frame[frame2pts[i]] is the greatest frame id with
\* the timestamp of frame i (so it is i when no later frame has the same
\* timestamp); on a constant-frame-rate input both maps are as they were.
C29_MapsInverseUpToEqualTimestamps ==
    Indexed =>
        IF isVFR
        THEN /\ DOMAIN frame2pts = FrameIds
             /\ \A i \in FrameIds : frame2pts[i] = pts_keyFrame_pair[i + 1].pts
             /\ DOMAIN pts2frame = {frame2pts[i] : i \in FrameIds}
             /\ \A t \in DOMAIN pts2frame :
                   pts2frame[t] \in FrameIds /\ frame2pts[pts2frame[t]] = t
             /\ \A i \in FrameIds :
                   \A j \in FrameIds : frame2pts[j] = frame2pts[i] => j <= pts2frame[frame2pts[i]]
        ELSE frame2pts = EmptyMap /\ pts2frame = EmptyMap

\* A variable-frame-rate stream of three frames, two of them with the same
\* timestamp, was indexed: the shared timestamp maps to the later frame.
C29_Witness ==
    /\ gpc = "indexed"
    /\ isVFR
    /\ Len(demuxed) = 3
    /\ frame2pts = (0 :> 10 @@ 1 :> 20 @@ 2 :> 20)
    /\ pts2frame = (10 :> 0 @@ 20 :> 2)

\* The stable sort by timestamp: of the pairs with the least timestamp the
\* first one in the sequence comes first.
RECURSIVE StableSort(_)
StableSort(seq) ==
    IF seq = <<>> THEN <<>>
    ELSE LET least == {j \in 1..Len(seq) : \A k \in 1..Len(seq) : seq[j].pts <= seq[k].pts}
             first == CHOOSE j \in least : \A k \in least : j <= k
         IN <<seq[first]>> \o StableSort(RemoveAt(seq, first))

\* C30: the frame ids follow the stable sort of the demultiplexed packets
\* by timestamp, so the boundary table is the one of that order.
C30_StableSortOrder ==
    Indexed =>
        /\ pts_keyFrame_pair = StableSort(DemuxedPairs)
        /\ gop_start_idx = GopStartIdx(StableSort(DemuxedPairs))

\* ------------------------------------------------ claims on the seeks
NoMap == sfn = "SeekGopFirstFrameNoMap"
Mapped == sfn = "Seek"

\* C22: SeekGopFirstFrameNoMap on a variable-frame-rate file ends in the
\* domain error with no container seek issued and the output frame id as
\* the caller left it.
C22_VfrFailsFast ==
    (NoMap /\ sIsVFR) => (spc = "domain_error" /\ ~sseeked /\ frame_id_out = -1)

C22_Witness ==
    /\ NoMap
    /\ sIsVFR
    /\ starget = 1
    /\ spc = "domain_error"

\* The frame id has no entry in frame2pts.
Unmapped(frame) == frame \notin DOMAIN sframe2pts

C23_TargetWithoutEntryFails ==
    (Mapped /\ sIsVFR /\ Unmapped(starget)) => (spc = "failed" /\ ~sseeked)

C23_AdvancedWithoutEntryFails ==
    [][(Mapped /\ sIsVFR /\ spc = "seeking" /\ Unmapped(frame_id_to_seek))
          => (spc' = "failed" /\ UNCHANGED <<sseeked, sout, timestamp_out>>)]_vars

\* C23: Seek on a variable-frame-rate file fails when the frame asked for
\* has no entry in the frame-to-timestamp map and when a frame id reached
\* by advancing has none; no container seek is issued for such a frame id.
C23_MissingEntryFails ==
    []C23_TargetWithoutEntryFails /\ C23_AdvancedWithoutEntryFails

\* Seek was called for frame 1, no seek reached the timestamp looked for,
\* and the call failed on frame id 3, which has no entry.
C23_Witness ==
    /\ Mapped
    /\ sIsVFR
    /\ starget = 1
    /\ frame_id_to_seek = 3
    /\ Unmapped(frame_id_to_seek)
    /\ sout.ret
    /\ spc = "failed"

\* The GOP starts of the file as the index builder sees them, and the
\* start of the GOP holding a frame.
GopStarts ==
    {i \in 0..(Len(sstream) - 1) :
        iskeyFrame(scodec, sstream[i + 1].pVideo, sstream[i + 1].flags) = "true"}
IsEnclosingGopStart(start, frame) ==
    /\ start \in GopStarts
    /\ start <= frame
    /\ \A other \in GopStarts : other <= frame => other <= start

\* C24: when SeekGopFirstFrameNoMap reports Found for frame t, the frame id
\* it gives is the greatest GOP start that is <= t.
C24_FoundIsEnclosingGopStart ==
    (NoMap /\ spc = "found") => IsEnclosingGopStart(frame_id_out, starget)

ReturnedPacketClass == hasKeyFrameNalType(scodec, sstream[sout.frame + 1].pVideo)
Verified == NoMap /\ spc = "verifying" /\ spc' # "verifying" /\ ~sout.null

C25_AcceptsOnlyGopStartAtOrBeforeTarget ==
    (NoMap /\ spc = "found") =>
        /\ sout.ret
        /\ ~sout.null
        /\ ReturnedPacketClass = "true"
        /\ frame_id_out = FrameNumFromTs(sstream[sout.frame + 1].pts)
        /\ frame_id_out <= starget

C25_LaterGopStartRetreatsByOne ==
    [][(Verified /\ ReturnedPacketClass = "true" /\ frame_id_out' > starget)
          => (current_frame_to_seek' = current_frame_to_seek - 1 /\ ~found_key_frame' /\ spc' = "seeking")]_vars

C25_OtherPacketJumpsBelowIt ==
    [][(Verified /\ ReturnedPacketClass = "false")
          => (current_frame_to_seek' = frame_id_out' - 1 /\ ~found_key_frame')]_vars

\* C25: Found is reported only for a returned packet that the flag-less
\* predicate classifies as a GOP start and whose frame id is <= the frame
\* asked for; a GOP start beyond that frame moves the search point back by
\* one, any other packet moves it to the returned frame id minus one.
C25_TransitionRules ==
    /\ []C25_AcceptsOnlyGopStartAtOrBeforeTarget
    /\ C25_LaterGopStartRetreatsByOne
    /\ C25_OtherPacketJumpsBelowIt

\* Found was reported below the frame asked for, after the search point
\* had moved below it.
C25_Witness ==
    /\ NoMap
    /\ spc = "found"
    /\ starget = 2
    /\ frame_id_out = 0
    /\ current_frame_to_seek = 0

C26_FoundNeedsPacketAndSearchPoint ==
    (NoMap /\ spc = "found") => (sout.ret /\ ~sout.null /\ current_frame_to_seek >= 0)

C26_NegativePointNotAccepted ==
    [][(NoMap /\ spc = "verifying" /\ spc' # "verifying" /\ current_frame_to_seek' < 0)
          => (spc' \in {"failed", "seeking"} /\ ~found_key_frame')]_vars

C26_NegativePointNeverSeeks ==
    [][(NoMap /\ spc = "seeking" /\ ~found_key_frame /\ current_frame_to_seek < 0)
          => (spc' = "failed" /\ UNCHANGED sseeked)]_vars

C26_FailedSeekFails ==
    [][(NoMap /\ spc = "seeking" /\ spc' # "seeking" /\ sseeked' /\ ~sout'.ret)
          => spc' = "failed"]_vars

C26_NoPacketFails ==
    [][(NoMap /\ spc = "verifying" /\ spc' # "verifying" /\ sout.null) => spc' = "failed"]_vars

\* C26: SeekGopFirstFrameNoMap reports failure when the search point
\* becomes negative, when a container seek fails and when a seek returns
\* no packet; Found is never reported in those cases.
C26_FailureCases ==
    /\ []C26_FoundNeedsPacketAndSearchPoint
    /\ C26_NegativePointNotAccepted
    /\ C26_NegativePointNeverSeeks
    /\ C26_FailedSeekFails
    /\ C26_NoPacketFails

\* The search started at frame 1 or later, every seek returned a packet,
\* and the call failed with the search point at -1.
C26_Witness ==
    /\ NoMap
    /\ spc = "failed"
    /\ starget >= 1
    /\ sout.ret
    /\ ~sout.null
    /\ current_frame_to_seek = -1

\* C27: on every turn of the loop of SeekGopFirstFrameNoMap that does not
\* accept, the search point strictly decreases.
C27_SearchPointDecreases ==
    [][(NoMap /\ spc = "verifying" /\ spc' = "seeking" /\ ~found_key_frame')
          => current_frame_to_seek' < current_frame_to_seek]_vars

\* The timestamp of the frame asked for.
TimestampOfTarget == IF sIsVFR THEN sframe2pts[starget] ELSE TsFromFrameNumber(starget)

C28_SuccessIsExactMatch ==
    (Mapped /\ spc = "found") =>
        (sout.ret /\ timestamp_out = timestamp_keyframe /\ timestamp_keyframe = TimestampOfTarget)

MappedTurn == Mapped /\ spc = "seeking" /\ sseeked' /\ frame_id_to_seek' # frame_id_to_seek

C28_TurnsAdvanceOrFail ==
    [][MappedTurn =>
          /\ frame_id_to_seek' = frame_id_to_seek + 1
          /\ ~sout'.ret => spc' = "failed"
          /\ (sout'.ret /\ timestamp_out' # timestamp_keyframe) => spc' = "seeking"]_vars

\* C28 as stated: Seek reports success only on a container seek whose
\* timestamp equals the timestamp of the frame asked for, the output frame
\* id then equals the frame asked for, every turn that does not reach the
\* match advances the frame id to seek by one, and a failed container seek
\* ends the call with failure.
C28_SuccessReturnsRequestedFrame ==
    /\ [](C28_SuccessIsExactMatch /\ ((Mapped /\ spc = "found") => frame_id_out = starget))
    /\ C28_TurnsAdvanceOrFail

\* The greatest frame id whose timestamp is that of the frame.
IsLastFrameWithTimestampOf(last, frame) ==
    IF sIsVFR
    THEN /\ last \in DOMAIN sframe2pts
         /\ sframe2pts[last] = sframe2pts[frame]
         /\ \A other \in DOMAIN sframe2pts : sframe2pts[other] = sframe2pts[frame] => other <= last
    ELSE last = frame

\* C28, amended: as stated, except that on success the output frame id is
\* the greatest frame id with the timestamp of the frame asked for, which
\* is the frame asked for when no later frame shares its timestamp.
C28_SuccessReturnsFrameOfTimestamp ==
    /\ [](C28_SuccessIsExactMatch
            /\ ((Mapped /\ spc = "found") => IsLastFrameWithTimestampOf(frame_id_out, starget)))
    /\ C28_TurnsAdvanceOrFail

\* Seek was called for frame 1 of a file whose frames 1 and 2 share a
\* timestamp; the first seek missed, the second matched, frame 2 came out.
C28_Witness ==
    /\ Mapped
    /\ sIsVFR
    /\ spc = "found"
    /\ starget = 1
    /\ frame_id_to_seek = 3
    /\ frame_id_out = 2

\* ------------------------------------------------ claims on parse_gop_length
\* The entries the call appended to the caller's first_frame_ids.
Appended(before, after) == SubSeq(after, Len(before) + 1, Len(after))

\* The GOP starts of the requested ids that lie inside the table.
EnclosingStarts(table, ids) ==
    {table[i] : i \in {j \in 1..(Len(table) - 1) :
                          \E n \in 1..Len(ids) : table[j] <= ids[n] /\ ids[n] < table[j + 1]}}

\* From a request inside the table the loop moves to a later position of
\* the request list, at most one past its end.
IterAdvances(table, ids) ==
    \A iter \in 1..Len(ids) :
        InsideTable(table, ids[iter]) =>
            LET next == NextRequest(ids, table[NextKey(table, ids[iter])])
            IN iter < next /\ next <= Len(ids) + 1

\* C31: on a non-empty sorted request list the first frame ids the call
\* appends are strictly increasing; when the call succeeds it appends one
\* entry per distinct GOP that encloses a requested id (two ids of one GOP
\* give one entry) and returns as many lengths as it appended first frame
\* ids; when the largest id is below the last boundary every turn of the
\* loop moves forward in the request list and the call ends, with a result
\* or with the out-of-range error.
C31_OneEntryPerGop ==
    [][(ParseGopLengthStep /\ sorted_frame_ids' # <<>>) =>
          LET ids == sorted_frame_ids'
              B == gop_start_idx
              added == Appended(first_frame_ids, first_frame_ids')
          IN /\ Len(first_frame_ids') >= Len(first_frame_ids)
             /\ SubSeq(first_frame_ids', 1, Len(first_frame_ids)) = first_frame_ids
             /\ StrictlyIncreasing(added)
             /\ lres' = "ok" =>
                  /\ Len(added) = Cardinality(EnclosingStarts(B, ids))
                  /\ {added[k] : k \in 1..Len(added)} = EnclosingStarts(B, ids)
                  /\ Len(gop_length') = Len(added)
             /\ ~PastLastBoundary(B, ids) =>
                  /\ IterAdvances(B, ids)
                  /\ lres' \in {"ok", "out_of_range"}]_vars

\* Boundaries [0, 2, 3]: the requests 0 and 1 lie in the first GOP and gave
\* one entry; the caller's vector held an entry before.
C31_Witness ==
    /\ gpc = "mapped"
    /\ gop_start_idx = <<0, 2, 3>>
    /\ sorted_frame_ids = <<0, 1>>
    /\ lres = "ok"
    /\ gop_length = <<2>>
    /\ first_frame_ids = <<0, 0>>

\* ------------------------------------------------ more claims on one runner
\* C32: when the task that failed threw something that is not a
\* std::exception, join() raises the generic "Thread task failed with
\* unknown exception" error and never the thrown object itself.
C32_UnknownReportedGeneric ==
    [][JoinReturnStep =>
          /\ cres' # "join_rethrow_unknown"
          /\ (hasException[cobj] /\ exceptionPtr[cobj] \notin {"std"})
                => cres' = "join_generic"]_vars

\* A step of the worker in which the task it runs throws.
FailingRunStep(t) == tpc[t] = "run" /\ tpc'[t] = "finish" /\ ttask[t].throws # "none"

\* C33, the runner goes on: tasks begin in submission order whether or not
\* an earlier one failed, and a task queued while a failure is held is
\* executed (or discarded by a force_join).
C33_OrderKept == [](\A b \in started : \A a \in 1..(b - 1) : a \in done \cup discarded)

C33_QueuedBehindFailureRuns ==
    \A id \in 1..MaxTasks :
        (hasException["r1"] /\ id \in Ids(tasks["r1"])) ~> (id \in done \cup discarded)

\* C33, the failure held: every failing task replaces the failure held by
\* its own, and nothing else writes it but join() and force_join().
C33_LastFailureHeld ==
    [][/\ FailingRunStep("r1") =>
             (hasException'["r1"] /\ exceptionPtr'["r1"] = ttask["r1"].throws)
       /\ exceptionPtr' # exceptionPtr =>
             (FailingRunStep("r1") \/ JoinReturnStep \/ ForceJoinReturnStep)]_vars

\* C33, the join: with one or more failures since the state was last
\* consumed, join() raises once, the failure held, and leaves the state
\* clear; with none it returns normally, so no earlier failure comes back.
C33_JoinRaisesHeldFailureOnce ==
    [][JoinReturnStep =>
          IF failedSince > 0
          THEN /\ cres' = "join_rethrow_" \o exceptionPtr[cobj]
               /\ raises' = raises + 1
               /\ ~hasException'[cobj]
               /\ exceptionPtr'[cobj] = "null"
               /\ failedSince' = 0
          ELSE /\ cres' = "join_ok"
               /\ raises' = raises]_vars

\* C33: a failing task does not stop the runner, and one join() after
\* several failing tasks raises exactly one failure, that of the last
\* failing task, after which the failure state is clear.
C33_LastFailureWins ==
    /\ C33_OrderKept
    /\ C33_QueuedBehindFailureRuns
    /\ C33_LastFailureHeld
    /\ C33_JoinRaisesHeldFailureOnce

\* Three tasks ran, two of them failed before the one join() so far, which
\* raised once.
C33_Witness ==
    /\ done = {1, 2, 3}
    /\ consumed = 2
    /\ raises = 1
    /\ cres = "join_rethrow_std"
    /\ ~hasException["r1"]
    /\ cpc = "idle"

\* ------------------------------------------------ claims on the destructor
DtorReturnStep == cpc = "dtor" /\ cpc' = "idle"
WorkerExitStep(t) == tpc[t] # "exited" /\ tpc'[t] = "exited"

\* C34, safety: the worker leaves its loop only with the stop flag set and
\* the queue empty; while the destructor waits nothing is discarded; when
\* it returns every task that was queued at its entry has been executed and
\* the queue is empty.
C34_WorkerExitsOnEmptyQueue ==
    [][WorkerExitStep("r1") => (stopFlag["r1"] /\ tasks["r1"] = <<>>)]_vars

C34_NothingDiscarded ==
    [][(cpc = "dtor" \/ cpc' = "dtor") => discarded' = discarded]_vars

C34_QueuedTasksExecuted ==
    [][DtorReturnStep =>
          /\ queuedAtDtor \subseteq done
          /\ tasks[cobj] = <<>>
          /\ started \subseteq done]_vars

\* C34, liveness: every task of the model returns or throws, and then the
\* destructor returns.
C34_DtorTerminates == (cpc = "dtor") ~> (cpc = "idle" /\ alive["r1"] = "destroyed")

\* C34: destroying a runner executes the tasks still queued and terminates.
C34_DtorRunsPendingWork ==
    /\ C34_WorkerExitsOnEmptyQueue
    /\ C34_NothingDiscarded
    /\ C34_QueuedTasksExecuted
    /\ C34_DtorTerminates

\* The destructor was entered with tasks 2 and 3 queued and has returned.
C34_Witness ==
    /\ alive["r1"] = "destroyed"
    /\ queuedAtDtor = {2, 3}
    /\ done = {1, 2, 3}
    /\ cpc = "idle"

\* ------------------------------------------------ claims on teardown
\* C35: the destructor of PyNvGopDecoder never raises: a failure a runner
\* still holds when the destructor joins it is discarded, and the
\* destructor goes on to destroy the runner.
C35_TeardownNeverRaises ==
    [][(cpc = "gop_dtor" /\ cpc' # "gop_dtor") =>
          (cpc' = "dtor" /\ ~JoinRaised(cres'))]_vars

\* ------------------------------------------------ more claims on the pipeline
\* C36: when the async task comes to publish its result the one-element
\* queue is not full, so push_back does not wait.
C36_PushNeverBlocks == tpc["r1"] = "push" => ~QueueFull(rq)

\* A task that has still to push its result: queued, decoding or pushing.
ResultComing == tasks["r1"] # <<>> \/ tpc["r1"] \in {"run", "push"}

\* C37: a retrieve that passed the entry check and waits in pop_front on an
\* empty queue has a result coming, so it does not wait forever; the second
\* of two retrieves after one submit is stopped by the entry check.
C37_RetrieveFindsResult == (cpc = "retrieve_pop" /\ QueueEmpty(rq)) => ResultComing

\* C38: a retrieve that fails with the mismatch error or by re-raising the
\* task's failure has emptied the queue; a failed task's result re-raises
\* the failure whatever the request names; and the next retrieve, with no
\* submit in between, is stopped by the entry check ("no pending task").
C38_FailedRetrieveConsumes ==
    [][/\ (RetrievePopStep /\ cres' \in {"mismatch", "task_failure"}) => rq' = <<>>
       /\ (RetrievePopStep /\ Head(rq).exception # "null") => cres' = "task_failure"
       /\ (cpc = "idle" /\ cres \in {"mismatch", "task_failure"})
             => cpc' # "retrieve_pop"]_vars

\* What a DecodeN12ToRGB call hands back.
SyncResults == {"sync_frames", "sync_error", "sync_unknown"}

\* The last call that returned was a synchronous DecodeN12ToRGB.
AfterSync == cpc = "idle" /\ cres \in SyncResults

\* C39: once a synchronous DecodeN12ToRGB has returned (and until the next
\* call) no async task is pending, queued or running and the result queue
\* is empty, whatever was submitted before it; a retrieve issued then is
\* stopped by the entry check and fails with the "no pending task" error.
C39_SyncLeavesNothing ==
    AfterSync =>
        /\ ~pending
        /\ QueueEmpty(rq)
        /\ tasks["r1"] = <<>>
        /\ tpc["r1"] \notin {"run", "push", "clear"}

C39_RetrieveAfterSyncFails ==
    [][AfterSync => (cpc' # "retrieve_pop" /\ rq' = <<>>)]_vars

C39_SyncInvalidatesAsyncResult == []C39_SyncLeavesNothing /\ C39_RetrieveAfterSyncFails

\* One submit whose result was published and never popped; a synchronous
\* decode emptied the queue, and the retrieve after it failed.
C39_Witness ==
    /\ cpc = "idle"
    /\ cres = "no_task"
    /\ nsub = 1
    /\ published = {1}
    /\ cgot = NoResult
    /\ rq = <<>>
    /\ superseded = {}

\* ------------------------------------------------ claims on the reader caches
\* An async task is about to run or is running run_rgb_out.
AsyncTaskUsesCaches == tasks["r1"] # <<>> \/ tpc["r1"] = "run"

\* The step in which one of the guarded functions runs its body, and the
\* step in which DecodeN12ToRGB decodes on the caller.
GuardedBodyStep ==
    /\ cpc \in {"idle"} \cup {"guard_join_" \o fn : fn \in GuardedFunctions}
    /\ cpc' \in {"idle", "reader_dtor"}
    /\ cres' \in GuardedFunctions

SyncDecodeStep ==
    /\ cpc \in {"idle", "sync_join"}
    /\ cpc' = "idle"
    /\ cres' \in SyncResults

\* C40: clearAllReaders, ReleaseMemPools, ReleaseDecoder and the destructor
\* clear or release the caches, and Decode and DecodeN12ToRGB look them up,
\* only when no async task is queued or inside run_rgb_out; and while the
\* caller is between such a step and its next call no task starts.
C40_BodyRunsAlone ==
    [][(GuardedBodyStep \/ SyncDecodeStep) => (~AsyncTaskUsesCaches /\ ~pending)]_vars

C40_NoTaskAfterRelease ==
    (cpc \in {"idle", "reader_dtor", "destroyed"} /\ cres \in GuardedFunctions \cup SyncResults)
        => ~AsyncTaskUsesCaches

C40_CachesNeverSharedWithTask == C40_BodyRunsAlone /\ []C40_NoTaskAfterRelease

\* The destructor was entered while async task 1 was still queued; the task
\* ran and published, then the caches were cleared and the reader is gone.
C40_Witness ==
    /\ cpc = "destroyed"
    /\ cres = "~PyNvSampleReader"
    /\ queuedAtDtor = {1}
    /\ published = {1}
    /\ done = {1}
    /\ alive["r1"] = "destroyed"

TypeOK ==
    /\ cpc \in {"idle", "join", "force", "dtor", "assign", "submit_join", "retrieve_pop", "sync_join",
               "gop_dtor", "terminated", "reader_dtor", "destroyed"}
                 \cup {"guard_join_" \o fn : fn \in GuardedFunctions}
    /\ \A o \in Objs : tpc[o] \in {"none", "wait", "run", "push", "clear", "finish", "exited", "hung"}
    /\ \A o \in Objs : Len(tasks[o]) <= MaxTasks
    /\ Len(rq) <= ResultQueueSize
    /\ pending \in BOOLEAN
====
